---- MODULE Spec2Model ----
(***************************************************************************)
(* Review syndication and aggregation engine of the Reviews-bundles app.   *)
(*                                                                         *)
(* The store is the Prisma database (productReview, reviewImage,           *)
(* bundleReview, reviewSyndication, reviewBundle); the catalog is the set  *)
(* of Shopify product metafields reviews.rating / reviews.count.  Every    *)
(* route handler is one atomic action.                                     *)
(*                                                                         *)
(* Strings that the code inspects character by character (product ids,     *)
(* the comma-joined productIds column, the rating form field) are tuples   *)
(* of one-character strings.  Opaque texts are TLA+ strings.               *)
(***************************************************************************)
EXTENDS Integers, Sequences, FiniteSets, TLC

VARIABLES reviews, bundleReview, reviewSyndication, reviewBundle,
          metafields, nextId, submitted, last, calls

vars == <<reviews, bundleReview, reviewSyndication, reviewBundle,
          metafields, nextId, submitted, last, calls>>

----------------------------------------------------------------------------
(* Bounds of the model *)

MaxId == 3
MaxSubmits == 1
MaxSyndId == 5
MaxAggReviews == 3

----------------------------------------------------------------------------
(* Values *)

(* Emails are tuples of characters; the null of the email column is a     *)
(* tuple no email can equal                                               *)
Null == <<"null">>

SubmitEmail == <<"a", "@", "b", ".", "c">>
EditEmail == <<"d", "@", "b", ".", "c">>
BadEmail == <<"a", "b">>

P12 == <<"1", "2">>
P3 == <<"3">>
P4 == <<"4">>
P5 == <<"5">>

BundleMembers == <<P12, P3, P4>>

Scopes == {"individual", "bundle"}
StatusInputs == {"pending", "approved", "rejected"}
(* The reviews a shopper submits: on the bundle's main product, on another *)
(* member and on a product outside the bundle                             *)
SubmitInputs ==
  {[productId |-> P12, rating |-> 5],
   [productId |-> P3, rating |-> 3],
   [productId |-> P5, rating |-> 3]}

ImageUrls == {"u1"}

----------------------------------------------------------------------------
(* String helpers *)

SeqMin(S) == CHOOSE x \in S : \A y \in S : x <= y

Contains(s, sub) ==
  \E i \in 1..(Len(s) - Len(sub) + 1) : SubSeq(s, i, i + Len(sub) - 1) = sub

RECURSIVE Split(_, _)
Split(s, sep) ==
  IF \A i \in 1..Len(s) : s[i] # sep
    THEN <<s>>
    ELSE LET k == SeqMin({i \in 1..Len(s) : s[i] = sep})
         IN <<SubSeq(s, 1, k - 1)>> \o Split(SubSeq(s, k + 1, Len(s)), sep)

RECURSIVE Join(_, _)
Join(parts, sep) ==
  IF parts = <<>> THEN <<>>
  ELSE IF Len(parts) = 1 THEN parts[1]
  ELSE parts[1] \o <<sep>> \o Join(Tail(parts), sep)

getNumericProductId(gid) ==
  LET parts == Split(gid, "/") IN parts[Len(parts)]

RECURSIVE SetToSeq(_)
SetToSeq(S) ==
  IF S = {} THEN <<>>
  ELSE LET m == SeqMin(S) IN <<m>> \o SetToSeq(S \ {m})

RECURSIVE Dedup(_)
Dedup(s) ==
  IF s = <<>> THEN <<>>
  ELSE LET rest == Dedup(SubSeq(s, 1, Len(s) - 1))
           x == s[Len(s)]
       IN IF \E i \in 1..Len(rest) : rest[i] = x THEN rest ELSE Append(rest, x)

Range(s) == {s[i] : i \in 1..Len(s)}

----------------------------------------------------------------------------
(* The store as one value, threaded through the handlers *)

Db == [r |-> reviews, br |-> bundleReview, sy |-> reviewSyndication,
       b |-> reviewBundle, n |-> nextId]

Exists(db, id) == id \in DOMAIN db.r

RowsById(S) == SetToSeq({x.id : x \in S})
RowOf(S, id) == CHOOSE x \in S : x.id = id

FindBundle(db, bundleId) == {x \in db.b : x.id = bundleId}

(* The store removes a review row alone: the syndication entries that     *)
(* name it stay until they are deleted themselves (deleteReview and        *)
(* deleteLink are separate calls of the store adapter).                    *)
LinksAfterDelete(db, id) == db.sy

(* productReview.delete / deleteMany of one row; reviewImage rows live in  *)
(* the row, bundleReview rows that reference the row go with it.           *)
DeleteReviewRow(db, id) ==
  [db EXCEPT !.r = [i \in (DOMAIN db.r) \ {id} |-> db.r[i]],
             !.br = {x \in db.br : x.reviewId # id},
             !.sy = LinksAfterDelete(db, id)]

----------------------------------------------------------------------------
(* reviewSyndication.server *)

isReviewInBundle(db, reviewId) ==
  IF ~Exists(db, reviewId)
    THEN [inBundle |-> FALSE, bundleId |-> 0, isSyndicated |-> FALSE]
    ELSE LET productNumericId == getNumericProductId(db.r[reviewId].productId)
             hits == {x \in db.b : Contains(x.productIds, productNumericId)}
         IN IF hits # {}
              THEN [inBundle |-> TRUE,
                    bundleId |-> SeqMin({x.id : x \in hits}),
                    isSyndicated |-> db.r[reviewId].isBundleReview]
              ELSE [inBundle |-> FALSE, bundleId |-> 0, isSyndicated |-> FALSE]

isFirstApproval(db, reviewId) ==
  Cardinality({s \in db.sy : s.originalReviewId = reviewId}) = 0

findOriginalReviewId(db, syndicatedReviewId) ==
  LET hits == {s \in db.sy : s.syndicatedReviewId = syndicatedReviewId}
  IN IF hits = {} THEN 0
     ELSE RowOf(hits, SeqMin({s.id : s \in hits})).originalReviewId

(* prisma update({where: {id}}) throws when the row is absent *)
SetStatus(db, id, status) ==
  [db EXCEPT !.r = [db.r EXCEPT ![id].status = status]]

CopyOf(orig, targetProductId, bundle, reviewId) ==
  [productId |-> targetProductId, rating |-> orig.rating,
   author |-> orig.author, email |-> orig.email, title |-> orig.title,
   content |-> orig.content, status |-> "approved", isBundleReview |-> TRUE,
   bundleContext |-> <<bundle.name, reviewId>>, images |-> orig.images]

(* Mutant: the update of an existing copy refreshes its status only *)
UpdateCopy_StatusOnly(st, orig, c) ==
  IF ~Exists(st.db, c)
    THEN [st EXCEPT !.threw = TRUE]
    ELSE [st EXCEPT !.db.r = [st.db.r EXCEPT ![c].status = "approved"],
                    !.count = st.count + 1]

(* The update of an existing copy; productReview.update throws when the  *)
(* row is gone.  st is [db, threw, count].                                 *)
UpdateCopy(st, orig, c) ==
  IF ~Exists(st.db, c)
    THEN [st EXCEPT !.threw = TRUE]
    ELSE [st EXCEPT !.db.r = [st.db.r EXCEPT
                                ![c].rating = orig.rating,
                                ![c].author = orig.author,
                                ![c].email = orig.email,
                                ![c].title = orig.title,
                                ![c].content = orig.content,
                                ![c].status = "approved",
                                ![c].images = orig.images],
                    !.count = st.count + 1]

(* Mutant: the syndication entry records the bundle's main product as its  *)
(* target                                                                  *)
CreateCopy_LinkToBundleProduct(st, reviewId, bundle, orig, targetProductId) ==
  LET db == st.db
      id == db.n
  IN [st EXCEPT
        !.db.r = [i \in (DOMAIN db.r) \cup {id} |->
                    IF i = id
                      THEN CopyOf(orig, targetProductId, bundle, reviewId)
                      ELSE db.r[i]],
        !.db.br = db.br \cup
                  {[id |-> id,
                    bundleProductId |-> bundle.bundleProductId,
                    reviewId |-> reviewId,
                    productId |-> targetProductId]},
        !.db.sy = db.sy \cup
                  {[id |-> id,
                    originalReviewId |-> reviewId,
                    syndicatedReviewId |-> id,
                    bundleId |-> bundle.id,
                    productId |-> bundle.bundleProductId]},
        !.db.n = id + 1,
        !.count = st.count + 1]

(* The three creates: the copy, its bundleReview row, its syndication entry *)
CreateCopy(st, reviewId, bundle, orig, targetProductId) ==
  LET db == st.db
      id == db.n
  IN [st EXCEPT
        !.db.r = [i \in (DOMAIN db.r) \cup {id} |->
                    IF i = id
                      THEN CopyOf(orig, targetProductId, bundle, reviewId)
                      ELSE db.r[i]],
        !.db.br = db.br \cup
                  {[id |-> id,
                    bundleProductId |-> bundle.bundleProductId,
                    reviewId |-> reviewId,
                    productId |-> targetProductId]},
        !.db.sy = db.sy \cup
                  {[id |-> id,
                    originalReviewId |-> reviewId,
                    syndicatedReviewId |-> id,
                    bundleId |-> bundle.id,
                    productId |-> targetProductId]},
        !.db.n = id + 1,
        !.count = st.count + 1]

(* Mutant: the existing syndication entry is not looked up *)
SyndicateTarget_AlwaysCreate(st, reviewId, bundle, orig, targetProductId) ==
  IF st.threw THEN st
  ELSE IF targetProductId = getNumericProductId(orig.productId) THEN st
  ELSE CreateCopy(st, reviewId, bundle, orig, targetProductId)

(* Mutant: the original's own product is not skipped *)
SyndicateTarget_NoSkip(st, reviewId, bundle, orig, targetProductId) ==
  LET existing == {s \in st.db.sy : s.originalReviewId = reviewId
                                    /\ s.productId = targetProductId}
  IN IF st.threw THEN st
     ELSE IF existing # {}
       THEN UpdateCopy(st, orig,
                       RowOf(existing, SeqMin({s.id : s \in existing}))
                         .syndicatedReviewId)
       ELSE CreateCopy(st, reviewId, bundle, orig, targetProductId)

(* One iteration of the loop over bundleProductIds; orig is the row read   *)
(* before the loop.                                                        *)
SyndicateTarget(st, reviewId, bundle, orig, targetProductId) ==
  LET existing == {s \in st.db.sy : s.originalReviewId = reviewId
                                    /\ s.productId = targetProductId}
  IN IF st.threw THEN st
     ELSE IF targetProductId = getNumericProductId(orig.productId) THEN st
     ELSE IF existing # {}
       THEN UpdateCopy(st, orig,
                       RowOf(existing, SeqMin({s.id : s \in existing}))
                         .syndicatedReviewId)
       ELSE CreateCopy(st, reviewId, bundle, orig, targetProductId)

RECURSIVE SyndicateLoop(_, _, _, _, _)
SyndicateLoop(st, reviewId, bundle, orig, targets) ==
  IF targets = <<>> THEN st
  ELSE SyndicateLoop(SyndicateTarget(st, reviewId, bundle, orig, Head(targets)),
                     reviewId, bundle, orig, Tail(targets))

(* Result: [db, success, count] *)
syndicateReviewToBundle(db, reviewId, bundleId) ==
  LET found == FindBundle(db, bundleId)
  IN IF found = {} \/ ~Exists(db, reviewId)
       THEN [db |-> db, success |-> FALSE, count |-> 0]
       ELSE LET bundle == CHOOSE x \in found : TRUE
                orig == db.r[reviewId]
                st == SyndicateLoop([db |-> db, threw |-> FALSE, count |-> 0],
                                    reviewId, bundle, orig,
                                    Split(bundle.productIds, ","))
            IN [db |-> st.db, success |-> ~st.threw, count |-> st.count]

(* Mutant: the copy's productReview row is not deleted *)
RemoveEntry_KeepsCopy(db, originalReviewId, entry) ==
  LET d2 == [db EXCEPT !.br = {x \in db.br :
                                 ~(x.reviewId = originalReviewId
                                   /\ x.productId = entry.productId)}]
  IN [db |-> [d2 EXCEPT !.sy = {s \in d2.sy : s.id # entry.id}],
      threw |-> entry \notin d2.sy]

(* The three deletes done for one syndication entry.  reviewSyndication    *)
(* .delete throws when the entry is already gone, after the two deleteMany *)
RemoveEntry(db, originalReviewId, entry) ==
  LET d1 == DeleteReviewRow(db, entry.syndicatedReviewId)
      d2 == [d1 EXCEPT !.br = {x \in d1.br :
                                 ~(x.reviewId = originalReviewId
                                   /\ x.productId = entry.productId)}]
  IN [db |-> [d2 EXCEPT !.sy = {s \in d2.sy : s.id # entry.id}],
      threw |-> entry \notin d2.sy]

(* Result: [db, success, removedCount] *)
removeSyndicatedReviewForProduct(db, originalReviewId, targetProductId) ==
  LET hits == {s \in db.sy : s.originalReviewId = originalReviewId
                             /\ s.productId = targetProductId}
  IN IF hits = {}
       THEN [db |-> db, success |-> TRUE, removedCount |-> 0]
       ELSE LET e == RowOf(hits, SeqMin({s.id : s \in hits}))
                res == RemoveEntry(db, originalReviewId, e)
            IN [db |-> res.db, success |-> ~res.threw,
                removedCount |-> IF res.threw THEN 0 ELSE 1]

RECURSIVE RemoveLoop(_, _, _)
RemoveLoop(st, originalReviewId, ids) ==
  IF ids = <<>> THEN st
  ELSE LET entry == RowOf(st.all, Head(ids))
           res == RemoveEntry(st.db, originalReviewId, entry)
       IN RemoveLoop([st EXCEPT !.db = res.db,
                               !.count = IF res.threw THEN @ ELSE @ + 1],
                     originalReviewId, Tail(ids))

(* Result: [db, success, syndicatedCount] *)
removeSyndicatedReviews(db, originalReviewId) ==
  LET entries == {s \in db.sy : s.originalReviewId = originalReviewId}
      st == RemoveLoop([db |-> db, count |-> 0, all |-> entries],
                       originalReviewId, RowsById(entries))
  IN [db |-> st.db, success |-> TRUE, syndicatedCount |-> st.count]

(* One iteration of the status sweep; a failing update is caught *)
UpdateEntryStatus(st, entry, status) ==
  IF Exists(st.db, entry.syndicatedReviewId)
    THEN [st EXCEPT !.db = SetStatus(st.db, entry.syndicatedReviewId, status),
                    !.count = @ + 1]
    ELSE st

RECURSIVE StatusLoop(_, _, _)
StatusLoop(st, ids, status) ==
  IF ids = <<>> THEN st
  ELSE StatusLoop(UpdateEntryStatus(st, RowOf(st.all, Head(ids)), status),
                  Tail(ids), status)

(* Result: [db, success, updatedCount] *)
updateSyndicatedReviewsStatus(db, originalReviewId, status) ==
  LET entries == {s \in db.sy : s.originalReviewId = originalReviewId}
      st == StatusLoop([db |-> db, count |-> 0, all |-> entries],
                       RowsById(entries), status)
  IN [db |-> st.db, success |-> TRUE, updatedCount |-> st.count]

----------------------------------------------------------------------------
(* Aggregation and catalog publish: calculateAndUpdateProductMetafields *)

RECURSIVE SumOver(_, _)
SumOver(S, val) ==
  IF S = {} THEN 0
  ELSE LET x == CHOOSE y \in S : TRUE IN val[x] + SumOver(S \ {x}, val)

(* Mutant: the isBundleReview filter is missing *)
DirectApproved_CountsCopies(db, productNumericId) ==
  {i \in DOMAIN db.r : /\ db.r[i].productId = productNumericId
                       /\ db.r[i].status = "approved"}

DirectApproved(db, productNumericId) ==
  {i \in DOMAIN db.r : /\ db.r[i].productId = productNumericId
                       /\ db.r[i].status = "approved"
                       /\ db.r[i].isBundleReview = FALSE}

(* bundleReview rows of the product whose related review (reviewId) is approved *)
SyndicatedApproved(db, productNumericId) ==
  {x \in db.br : /\ x.productId = productNumericId
                 /\ Exists(db, x.reviewId)
                 /\ db.r[x.reviewId].status = "approved"}

RatingMapKeys(db, productNumericId) ==
  {[kind |-> "direct", bundleProductId |-> <<>>, reviewId |-> i] :
      i \in DirectApproved(db, productNumericId)}
  \cup
  {[kind |-> "syndicated", bundleProductId |-> x.bundleProductId,
    reviewId |-> x.reviewId] : x \in SyndicatedApproved(db, productNumericId)}

(* Mutant: the map is keyed by the rating instead of the review *)
computeAggregate_KeyedByRating(db, productNumericId) ==
  LET ratings == {db.r[k.reviewId].rating : k \in RatingMapKeys(db, productNumericId)}
  IN [count |-> Cardinality(ratings),
      sum |-> SumOver(ratings, [v \in ratings |-> v])]

(* {count, sum}: the mean is sum / count when count > 0 and 0 otherwise *)
computeAggregate(db, productNumericId) ==
  LET keys == RatingMapKeys(db, productNumericId)
      val == [k \in keys |-> db.r[k.reviewId].rating]
  IN [count |-> Cardinality(keys), sum |-> SumOver(keys, val)]

(* Number.toFixed(1) of sum / count, in tenths *)
ToFixed1(sum, count) ==
  IF count > 0 THEN (20 * sum + count) \div (2 * count) ELSE 0

PublishOne(mf, db, productNumericId) ==
  LET a == computeAggregate(db, productNumericId)
  IN [p \in (DOMAIN mf) \cup {productNumericId} |->
        IF p = productNumericId
          THEN [rating |-> ToFixed1(a.sum, a.count), count |-> a.count]
          ELSE mf[p]]

RECURSIVE PublishAll(_, _, _)
PublishAll(mf, db, products) ==
  IF products = <<>> THEN mf
  ELSE PublishAll(PublishOne(mf, db, Head(products)), db, Tail(products))

(* Array.from(new Set(ids)).filter(id => id && id !== 'undefined') *)
UniqueProducts(products) ==
  SelectSeq(Dedup(products), LAMBDA p : p # <<>>)

(* productsToUpdateMetafields of the status route: own product, plus the   *)
(* bundle's members when the action comes from the bundle tab              *)
BundleConfigOf(db, bundleInfo) ==
  IF bundleInfo.inBundle THEN FindBundle(db, bundleInfo.bundleId) ELSE {}

----------------------------------------------------------------------------
(* Status route: action of app.reviews.$id.status *)

StatusProducts(db, reviewId, actionSource) ==
  LET own == getNumericProductId(db.r[reviewId].productId)
      config == BundleConfigOf(db, isReviewInBundle(db, reviewId))
  IN IF config # {} /\ actionSource = "bundle"
       THEN <<own>> \o Split((CHOOSE x \in config : TRUE).productIds, ",")
       ELSE <<own>>

ApproveInBundle(db, reviewId, bundleId) ==
  LET d1 == IF isFirstApproval(db, reviewId)
              THEN syndicateReviewToBundle(db, reviewId, bundleId).db
              ELSE updateSyndicatedReviewsStatus(db, reviewId, "approved").db
  IN SetStatus(d1, reviewId, "approved")

(* Mutant: the copies are not swept *)
PropagateInBundle_OnlyTarget(db, reviewId, bundleInfo, status) ==
  SetStatus(db, reviewId, status)

PropagateInBundle(db, reviewId, bundleInfo, status) ==
  LET d1 == SetStatus(db, reviewId, status)
      originalReviewId == IF bundleInfo.isSyndicated
                            THEN findOriginalReviewId(d1, reviewId)
                            ELSE reviewId
  IN IF originalReviewId # 0
       THEN updateSyndicatedReviewsStatus(d1, originalReviewId, status).db
       ELSE d1

(* Mutant: the action source is not consulted *)
StatusMutation_IgnoresScope(db, reviewId, status, actionSource) ==
  LET bundleInfo == isReviewInBundle(db, reviewId)
      config == BundleConfigOf(db, bundleInfo)
  IN IF config # {}
       THEN IF status = "approved"
              THEN ApproveInBundle(db, reviewId, (CHOOSE x \in config : TRUE).id)
              ELSE PropagateInBundle(db, reviewId, bundleInfo, status)
       ELSE SetStatus(db, reviewId, status)

(* The store after the status mutation *)
StatusMutation(db, reviewId, status, actionSource) ==
  LET bundleInfo == isReviewInBundle(db, reviewId)
      config == BundleConfigOf(db, bundleInfo)
  IN IF actionSource = "bundle" /\ config # {}
       THEN IF status = "approved"
              THEN ApproveInBundle(db, reviewId, (CHOOSE x \in config : TRUE).id)
              ELSE PropagateInBundle(db, reviewId, bundleInfo, status)
       ELSE SetStatus(db, reviewId, status)

(* Result of a handler: [db, code, published] *)
StatusAction(db, reviewId, status, actionSource) ==
  IF status \notin {"pending", "approved", "rejected"}
    THEN [db |-> db, code |-> 400, published |-> <<>>]
  ELSE IF ~Exists(db, reviewId)
    THEN [db |-> db, code |-> 404, published |-> <<>>]
  ELSE [db |-> StatusMutation(db, reviewId, status, actionSource),
        code |-> 200,
        published |-> UniqueProducts(StatusProducts(db, reviewId, actionSource))]

----------------------------------------------------------------------------
(* Edit / delete route: action of app.reviews.$id.actions *)

(* productsToUpdateMetafields of this route: the bundle's members are      *)
(* added whatever the action source                                        *)
ActionProducts(db, reviewId) ==
  LET own == getNumericProductId(db.r[reviewId].productId)
      config == BundleConfigOf(db, isReviewInBundle(db, reviewId))
  IN IF config # {}
       THEN <<own>> \o Split((CHOOSE x \in config : TRUE).productIds, ",")
       ELSE <<own>>

(* Mutant: an individual delete of an original leaves its copies alone *)
DeleteCleanup_OriginalOnly(db, reviewId, bundleInfo, actionSource) ==
  IF ~bundleInfo.inBundle THEN [db |-> db, reviewId |-> reviewId]
  ELSE IF actionSource = "bundle"
    THEN LET originalId == IF bundleInfo.isSyndicated
                             THEN findOriginalReviewId(db, reviewId)
                             ELSE reviewId
         IN IF originalId # 0
              THEN [db |-> removeSyndicatedReviews(db, originalId).db,
                    reviewId |-> originalId]
              ELSE [db |-> db, reviewId |-> reviewId]
  ELSE IF actionSource = "individual" /\ bundleInfo.isSyndicated
    THEN LET originalId == findOriginalReviewId(db, reviewId)
         IN IF originalId # 0
              THEN [db |-> removeSyndicatedReviewForProduct(
                             db, originalId,
                             getNumericProductId(db.r[reviewId].productId)).db,
                    reviewId |-> reviewId]
              ELSE [db |-> db, reviewId |-> reviewId]
  ELSE [db |-> db, reviewId |-> reviewId]

(* The syndication clean-up of handleDeleteReview: [db, reviewId], the     *)
(* store after it and the id the final productReview.delete is given       *)
DeleteCleanup(db, reviewId, bundleInfo, actionSource) ==
  IF ~bundleInfo.inBundle THEN [db |-> db, reviewId |-> reviewId]
  ELSE IF actionSource = "bundle"
    THEN LET originalId == IF bundleInfo.isSyndicated
                             THEN findOriginalReviewId(db, reviewId)
                             ELSE reviewId
         IN IF originalId # 0
              THEN [db |-> removeSyndicatedReviews(db, originalId).db,
                    reviewId |-> originalId]
              ELSE [db |-> db, reviewId |-> reviewId]
  ELSE IF actionSource = "individual"
    THEN IF bundleInfo.isSyndicated
           THEN LET originalId == findOriginalReviewId(db, reviewId)
                IN IF originalId # 0
                     THEN [db |-> removeSyndicatedReviewForProduct(
                                    db, originalId,
                                    getNumericProductId(db.r[reviewId].productId)).db,
                           reviewId |-> reviewId]
                     ELSE [db |-> db, reviewId |-> reviewId]
           ELSE [db |-> removeSyndicatedReviews(db, reviewId).db,
                 reviewId |-> reviewId]
  ELSE [db |-> db, reviewId |-> reviewId]

(* productReview.delete throws when the row does not exist; the throw      *)
(* leaves handleDeleteReview and is answered 500 by the action's catch     *)
handleDeleteReview(db, reviewId, productsToUpdate, bundleInfo, actionSource) ==
  LET c == DeleteCleanup(db, reviewId, bundleInfo, actionSource)
  IN IF ~Exists(c.db, c.reviewId)
       THEN [db |-> c.db, code |-> 500, published |-> <<>>]
       ELSE [db |-> DeleteReviewRow(c.db, c.reviewId), code |-> 200,
             published |-> UniqueProducts(productsToUpdate)]

(* Mutant: deleting a review that is not there succeeds *)
DeleteAction_Idempotent(db, reviewId, actionSource) ==
  IF ~Exists(db, reviewId)
    THEN [db |-> db, code |-> 200, published |-> <<>>]
    ELSE handleDeleteReview(db, reviewId, ActionProducts(db, reviewId),
                            isReviewInBundle(db, reviewId), actionSource)

DeleteAction(db, reviewId, actionSource) ==
  IF ~Exists(db, reviewId)
    THEN [db |-> db, code |-> 404, published |-> <<>>]
    ELSE handleDeleteReview(db, reviewId, ActionProducts(db, reviewId),
                            isReviewInBundle(db, reviewId), actionSource)

(* Form fields: form.has holds the names of the fields that are present;   *)
(* formData.get(name)?.toString() is undefined for the others              *)
EmptyText(name) == IF name \in {"rating", "email"} THEN <<>> ELSE ""
Falsy(form, name) == name \notin form.has \/ form[name] = EmptyText(name)

DigitValue == ("0" :> 0) @@ ("1" :> 1) @@ ("2" :> 2) @@ ("3" :> 3) @@ ("4" :> 4)
              @@ ("5" :> 5) @@ ("6" :> 6) @@ ("7" :> 7) @@ ("8" :> 8) @@ ("9" :> 9)

RECURSIVE SkipSpaces(_)
SkipSpaces(s) ==
  IF s # <<>> /\ Head(s) = " " THEN SkipSpaces(Tail(s)) ELSE s

RECURSIVE DigitPrefix(_)
DigitPrefix(s) ==
  IF s # <<>> /\ Head(s) \in DOMAIN DigitValue
    THEN <<Head(s)>> \o DigitPrefix(Tail(s))
    ELSE <<>>

RECURSIVE DigitsToInt(_)
DigitsToInt(d) ==
  IF d = <<>> THEN 0
  ELSE 10 * DigitsToInt(SubSeq(d, 1, Len(d) - 1)) + DigitValue[d[Len(d)]]

(* parseInt(text, 10): [nan, value] *)
ParseInt(text) ==
  LET t == SkipSpaces(text)
      neg == t # <<>> /\ Head(t) = "-"
      body == IF t # <<>> /\ Head(t) \in {"+", "-"} THEN Tail(t) ELSE t
      digits == DigitPrefix(body)
  IN IF digits = <<>>
       THEN [nan |-> TRUE, value |-> 0]
       ELSE [nan |-> FALSE,
             value |-> IF neg THEN 0 - DigitsToInt(digits) ELSE DigitsToInt(digits)]

(* The two checks made before the try block *)
EditInputError(form) ==
  \/ Falsy(form, "title") \/ Falsy(form, "content")
  \/ Falsy(form, "rating") \/ Falsy(form, "author")
  \/ LET parsedRating == ParseInt(form.rating)
     IN parsedRating.nan \/ parsedRating.value < 1 \/ parsedRating.value > 5

(* data of productReview.update and of the updateMany on the copies *)
EditData(row, form) ==
  [row EXCEPT !.title = form.title,
              !.content = form.content,
              !.rating = ParseInt(form.rating).value,
              !.author = form.author,
              !.email = IF Falsy(form, "email") THEN Null ELSE form.email,
              !.status = IF Falsy(form, "status") THEN "pending" ELSE form.status]

(* reviewImage.deleteMany({where: {id: {in: imagesToRemove}, reviewId}}) *)
RemoveImages(db, reviewId, imagesToRemove) ==
  [db EXCEPT !.r = [db.r EXCEPT ![reviewId].images =
                      {u \in @ : [reviewId |-> reviewId, url |-> u]
                                   \notin imagesToRemove}]]

(* Mutant: the edit is not written to the copies *)
PropagateEdit_SkipsCopies(db, reviewId, form) == db

PropagateEdit(db, reviewId, form) ==
  LET copyIds == {s.syndicatedReviewId :
                    s \in {x \in db.sy : x.originalReviewId = reviewId}}
  IN [db EXCEPT !.r = [i \in DOMAIN db.r |->
                         IF i \in copyIds THEN EditData(db.r[i], form)
                                          ELSE db.r[i]]]

EditMutation(db, reviewId, form, bundleInfo, actionSource) ==
  LET d1 == RemoveImages(db, reviewId, form.imagesToRemove)
      d2 == [d1 EXCEPT !.r = [d1.r EXCEPT ![reviewId] = EditData(@, form)]]
  IN IF bundleInfo.inBundle /\ actionSource = "bundle" /\ ~bundleInfo.isSyndicated
       THEN PropagateEdit(d2, reviewId, form)
       ELSE d2

handleEditReview(db, reviewId, form, productsToUpdate, bundleInfo, actionSource) ==
  IF EditInputError(form)
    THEN [db |-> db, code |-> 400, published |-> <<>>]
    ELSE [db |-> EditMutation(db, reviewId, form, bundleInfo, actionSource),
          code |-> 200,
          published |-> UniqueProducts(productsToUpdate)]

EditAction(db, reviewId, form, actionSource) ==
  IF ~Exists(db, reviewId)
    THEN [db |-> db, code |-> 404, published |-> <<>>]
    ELSE handleEditReview(db, reviewId, form, ActionProducts(db, reviewId),
                          isReviewInBundle(db, reviewId), actionSource)

----------------------------------------------------------------------------
(* Review submission: action of api.productreview *)

(* /^[^\s@]+@[^\s@]+\.[^\s@]+$/.test(email) *)
EmailPart(e, from, to) ==
  /\ from <= to
  /\ \A k \in from..to : e[k] \notin {" ", "@"}

WellFormedEmail(e) ==
  \E i \in 1..Len(e) : \E j \in 1..Len(e) :
    /\ i < j /\ e[i] = "@" /\ e[j] = "."
    /\ EmailPart(e, 1, i - 1)
    /\ EmailPart(e, i + 1, j - 1)
    /\ EmailPart(e, j + 1, Len(e))

SubmittedRow(productId, rating, images) ==
  [productId |-> productId, rating |-> rating,
   author |-> "a1", email |-> SubmitEmail, title |-> "t1", content |-> "c1",
   status |-> "pending", isBundleReview |-> FALSE,
   bundleContext |-> <<>>, images |-> images]

SubmitAction(db, productId, rating, images) ==
  IF ~WellFormedEmail(SubmitEmail)
    THEN [db |-> db, code |-> 400, published |-> <<>>]
    ELSE [db |-> [db EXCEPT !.r = [i \in (DOMAIN db.r) \cup {db.n} |->
                                     IF i = db.n
                                       THEN SubmittedRow(productId, rating, images)
                                       ELSE db.r[i]],
                            !.n = db.n + 1],
          code |-> 201,
          published |-> <<productId>>]

----------------------------------------------------------------------------
(* Inputs *)

FieldNames == {"title", "content", "rating", "author", "email", "status"}

BaseForm ==
  [has |-> FieldNames, title |-> "t2", content |-> "c2", rating |-> <<"4">>,
   author |-> "a2", email |-> EditEmail, status |-> "approved",
   imagesToRemove |-> {}]

NoForm == [BaseForm EXCEPT !.has = {}]

ImageIdsOf(reviewId) == {[reviewId |-> reviewId, url |-> u] : u \in ImageUrls}

(* The forms a request may carry: a full edit, an edit with no status and *)
(* no email that also removes the review's images, ratings that are out   *)
(* of range, not a number, or a digit followed by a letter, and forms     *)
(* with a required field absent or empty, and an edit whose status is    *)
(* none of the three lifecycle values                                     *)
EditForms(reviewId) ==
  {BaseForm,
   [BaseForm EXCEPT !.has = FieldNames \ {"status", "email"},
                    !.imagesToRemove = ImageIdsOf(reviewId)],
   [BaseForm EXCEPT !.rating = <<"0">>],
   [BaseForm EXCEPT !.rating = <<"6">>],
   [BaseForm EXCEPT !.rating = <<"a", "b", "c">>],
   [BaseForm EXCEPT !.rating = <<"5", "x">>],
   [BaseForm EXCEPT !.rating = <<>>],
   [BaseForm EXCEPT !.has = FieldNames \ {"rating"}],
   [BaseForm EXCEPT !.has = FieldNames \ {"title"}],
   [BaseForm EXCEPT !.content = ""],
   [BaseForm EXCEPT !.has = FieldNames \ {"author"}],
   [BaseForm EXCEPT !.email = <<>>],
   [BaseForm EXCEPT !.email = BadEmail],
   [BaseForm EXCEPT !.status = "archived"]}

----------------------------------------------------------------------------
(* The state machine: one action per request *)

Ids == 1..MaxId

(* The status requests whose store calls may interleave, and the position  *)
(* of each in the approved branch of the status route: the review id, the  *)
(* original read by syndicateReviewToBundle, the targets still to process, *)
(* the entry found for the current target, the copy created for it, the    *)
(* entries still to sweep and the products still to publish                *)
Callers == {"a", "b"}

IdleCall ==
  [pc |-> "idle", id |-> 0, orig |-> SubmittedRow(<<>>, 0, {}),
   targets |-> <<>>, found |-> 0, copy |-> 0, entries |-> <<>>,
   products |-> <<>>]

WriteStore(db) ==
  /\ reviews' = db.r
  /\ bundleReview' = db.br
  /\ reviewSyndication' = db.sy
  /\ reviewBundle' = db.b
  /\ nextId' = db.n

StoreUnchanged ==
  UNCHANGED <<reviews, bundleReview, reviewSyndication, reviewBundle, nextId>>

(* A request that changes neither the store nor the catalog is a           *)
(* stuttering step; last describes the latest request that changed them.  *)
Changes(res) ==
  \/ res.db # Db
  \/ PublishAll(metafields, res.db, res.published) # metafields

(* cap is the largest review id the step may hand out *)
Effect(res, op, id, status, scope, form, cap) ==
  /\ res.db.n <= cap + 1
  /\ reviews' = res.db.r
  /\ bundleReview' = res.db.br
  /\ reviewSyndication' = res.db.sy
  /\ reviewBundle' = res.db.b
  /\ nextId' = res.db.n
  /\ metafields' = PublishAll(metafields, res.db, res.published)
  /\ calls' = calls
  /\ last' = [op |-> op, id |-> id, status |-> status, scope |-> scope,
              form |-> form, code |-> res.code,
              rep |-> (last.op = op /\ last.id = id /\ last.status = status
                       /\ last.scope = scope /\ last.form = form)]

Apply(res, op, id, status, scope, form) ==
  /\ Changes(res)
  /\ Effect(res, op, id, status, scope, form, MaxId)

SubmitReview ==
  /\ submitted < MaxSubmits
  /\ submitted' = submitted + 1
  /\ \E input \in SubmitInputs, images \in {ImageUrls} :
       Apply(SubmitAction(Db, input.productId, input.rating, images),
             "submit", nextId, "", "", NoForm)

ChangeStatus ==
  /\ UNCHANGED submitted
  /\ \E id \in Ids, status \in StatusInputs, scope \in Scopes :
    Apply(StatusAction(Db, id, status, scope), "status", id, status, scope, NoForm)

DeleteReview ==
  /\ UNCHANGED submitted
  /\ \E id \in Ids, scope \in Scopes :
    Apply(DeleteAction(Db, id, scope), "delete", id, "", scope, NoForm)

EditReview ==
  /\ UNCHANGED submitted
  /\ \E id \in Ids, scope \in Scopes :
    \E form \in EditForms(id) :
      Apply(EditAction(Db, id, form, scope), "edit", id, "", scope, form)

TheBundle ==
  [id |-> 1, name |-> "B1", bundleProductId |-> BundleMembers[1],
   productIds |-> Join(BundleMembers, ",")]

Init ==
  /\ reviews = <<>>
  /\ bundleReview = {}
  /\ reviewSyndication = {}
  /\ reviewBundle = {TheBundle}
  /\ metafields = <<>>
  /\ nextId = 1
  /\ submitted = 0
  /\ last = [op |-> "init", id |-> 0, status |-> "", scope |-> "",
             form |-> NoForm, code |-> 0, rep |-> FALSE]
  /\ calls = [c \in Callers |-> IdleCall]

Next == SubmitReview \/ ChangeStatus \/ DeleteReview

Spec == Init /\ [][Next]_vars

----------------------------------------------------------------------------
(* The syndication engine called directly: every call is recorded *)

SyndicateCall ==
  /\ UNCHANGED submitted
  /\ \E id \in Ids, b \in reviewBundle :
       LET res == syndicateReviewToBundle(Db, id, b.id)
       IN Effect([db |-> res.db,
                  code |-> IF res.success THEN 200 ELSE 500,
                  published |-> <<>>],
                 "syndicate", id, "", "", NoForm, MaxSyndId)

NextSynd == SubmitReview \/ ChangeStatus \/ SyndicateCall

SpecSynd == Init /\ [][NextSynd]_vars

----------------------------------------------------------------------------
(* The edit form of the admin: submissions, approvals and edits *)

ApproveForBundle ==
  /\ UNCHANGED submitted
  /\ \E id \in Ids :
       Apply(StatusAction(Db, id, "approved", "bundle"),
             "status", id, "approved", "bundle", NoForm)

NextEdit == SubmitReview \/ ApproveForBundle \/ EditReview

SpecEdit == Init /\ [][NextEdit]_vars

----------------------------------------------------------------------------
(* The whole lifecycle: submissions, status changes, edits and deletions *)

(* The admin saves the edit form with the submitted texts and the status   *)
(* approved                                                                *)
ResaveForm ==
  [has |-> FieldNames, title |-> "t1", content |-> "c1", rating |-> <<"5">>,
   author |-> "a1", email |-> SubmitEmail, status |-> "approved",
   imagesToRemove |-> {}]

ResaveReview ==
  /\ UNCHANGED submitted
  /\ \E id \in Ids, scope \in Scopes :
       Apply(EditAction(Db, id, ResaveForm, scope),
             "edit", id, "", scope, ResaveForm)

NextLife == SubmitReview \/ ChangeStatus \/ ResaveReview \/ DeleteReview

SpecLife == Init /\ [][NextLife]_vars

----------------------------------------------------------------------------
(* The aggregation engine on its own: the store holds up to MaxAggReviews  *)
(* reviews of one member product, some of them syndicated to the other     *)
(* members, and the aggregate of a product is recomputed and published.    *)

AggRatings == {3, 4, 5}
AggStatuses == {"approved", "pending"}

AggRow(rating, status) ==
  [SubmittedRow(P3, rating, {}) EXCEPT !.status = status]

AggStore(rows) ==
  [r |-> rows, br |-> {}, sy |-> {}, b |-> {TheBundle}, n |-> Len(rows) + 1]

RECURSIVE SyndicateAll(_, _)
SyndicateAll(db, ids) ==
  IF ids = <<>> THEN db
  ELSE SyndicateAll(syndicateReviewToBundle(db, Head(ids), TheBundle.id).db,
                    Tail(ids))

InitAgg ==
  /\ \E n \in 0..MaxAggReviews :
       \E ratings \in [1..n -> AggRatings], statuses \in [1..n -> AggStatuses],
          syndicated \in SUBSET (1..n) :
         LET db == SyndicateAll(AggStore([i \in 1..n |->
                                           AggRow(ratings[i], statuses[i])]),
                                SetToSeq(syndicated))
         IN /\ reviews = db.r
            /\ bundleReview = db.br
            /\ reviewSyndication = db.sy
            /\ reviewBundle = db.b
            /\ nextId = db.n
  /\ metafields = <<>>
  /\ submitted = 0
  /\ last = [op |-> "init", id |-> 0, status |-> "", scope |-> "",
             form |-> NoForm, code |-> 0, rep |-> FALSE]
  /\ calls = [c \in Callers |-> IdleCall]

Recompute ==
  /\ \E p \in Range(BundleMembers) :
       /\ PublishOne(metafields, Db, p) # metafields
       /\ metafields' = PublishOne(metafields, Db, p)
  /\ UNCHANGED <<reviews, bundleReview, reviewSyndication, reviewBundle,
                 nextId, submitted, last, calls>>

SpecAgg == InitAgg /\ [][Recompute]_vars

----------------------------------------------------------------------------
(* The lifecycle with a failing catalog: calculateAndUpdateProductMetafields *)
(* of the products in failing throws, on its reads or on its publish, and  *)
(* catches the error itself; the submission route catches it likewise.     *)

PublishOneOrFail(mf, db, productNumericId, failing) ==
  IF productNumericId \in failing THEN mf
  ELSE PublishOne(mf, db, productNumericId)

(* Mutant: the error of one product leaves the loop *)
RECURSIVE PublishAllOrFail_Aborts(_, _, _, _)
PublishAllOrFail_Aborts(mf, db, products, failing) ==
  IF products = <<>> \/ Head(products) \in failing THEN mf
  ELSE PublishAllOrFail_Aborts(PublishOne(mf, db, Head(products)), db,
                               Tail(products), failing)

RECURSIVE PublishAllOrFail(_, _, _, _)
PublishAllOrFail(mf, db, products, failing) ==
  IF products = <<>> THEN mf
  ELSE PublishAllOrFail(PublishOneOrFail(mf, db, Head(products), failing), db,
                        Tail(products), failing)

(* no failure, or the failure of the bundle member that is neither the     *)
(* first nor the last product of a bundle-wide publish loop                *)
FailingSets == {{}, {BundleMembers[2]}}

NoInput == [productId |-> <<>>, rating |-> 0]

ApplyOrFail(res, op, id, status, scope, form, input, failing) ==
  /\ res.db.n <= MaxId + 1
  /\ \/ res.db # Db
     \/ PublishAllOrFail(metafields, res.db, res.published, failing) # metafields
  /\ WriteStore(res.db)
  /\ metafields' = PublishAllOrFail(metafields, res.db, res.published, failing)
  /\ calls' = calls
  /\ last' = [op |-> op, id |-> id, status |-> status, scope |-> scope,
              form |-> form, code |-> res.code, rep |-> FALSE,
              input |-> input, failed |-> failing,
              published |-> res.published,
              prior |-> [p \in failing \cap DOMAIN metafields |->
                           metafields[p]]]

SubmitOrFail ==
  /\ submitted < MaxSubmits
  /\ submitted' = submitted + 1
  /\ \E input \in SubmitInputs, failing \in FailingSets :
       ApplyOrFail(SubmitAction(Db, input.productId, input.rating, ImageUrls),
                   "submit", nextId, "", "", NoForm, input, failing)

ChangeStatusOrFail ==
  /\ UNCHANGED submitted
  /\ \E id \in Ids, status \in StatusInputs, scope \in Scopes,
        failing \in FailingSets :
       ApplyOrFail(StatusAction(Db, id, status, scope),
                   "status", id, status, scope, NoForm, NoInput, failing)

ResaveOrFail ==
  /\ UNCHANGED submitted
  /\ \E id \in Ids, scope \in Scopes, failing \in FailingSets :
       ApplyOrFail(EditAction(Db, id, ResaveForm, scope),
                   "edit", id, "", scope, ResaveForm, NoInput, failing)

DeleteOrFail ==
  /\ UNCHANGED submitted
  /\ \E id \in Ids, scope \in Scopes, failing \in FailingSets :
       ApplyOrFail(DeleteAction(Db, id, scope),
                   "delete", id, "", scope, NoForm, NoInput, failing)

InitFail ==
  /\ reviews = <<>>
  /\ bundleReview = {}
  /\ reviewSyndication = {}
  /\ reviewBundle = {TheBundle}
  /\ metafields = <<>>
  /\ nextId = 1
  /\ submitted = 0
  /\ last = [op |-> "init", id |-> 0, status |-> "", scope |-> "",
             form |-> NoForm, code |-> 0, rep |-> FALSE,
             input |-> NoInput, failed |-> {}, published |-> <<>>,
             prior |-> <<>>]
  /\ calls = [c \in Callers |-> IdleCall]

NextFail == SubmitOrFail \/ ChangeStatusOrFail \/ ResaveOrFail \/ DeleteOrFail

SpecFail == InitFail /\ [][NextFail]_vars

----------------------------------------------------------------------------
(* Overlapping approvals: ChangeStatus(R, approved, bundle) issued by two   *)
(* requests whose store calls interleave.  Every action is one store call  *)
(* (or one catalog publish) of one request.                                *)

BundleOfCall(c) ==
  CHOOSE x \in FindBundle(Db, isReviewInBundle(Db, calls[c].id).bundleId) : TRUE

(* the lookups of the route: the review, its bundle, the products to update *)
StartApprove ==
  \E c \in Callers, id \in DOMAIN reviews :
    /\ calls[c].pc = "idle"
    /\ ~reviews[id].isBundleReview
    /\ isReviewInBundle(Db, id).inBundle
    /\ \A d \in Callers : calls[d].pc # "idle" => calls[d].id = id
    /\ (\A d \in Callers : calls[d].pc = "idle") => isFirstApproval(Db, id)
    /\ calls' = [calls EXCEPT ![c] =
                   [IdleCall EXCEPT
                      !.pc = "isFirstApproval", !.id = id,
                      !.products = UniqueProducts(StatusProducts(Db, id, "bundle"))]]
    /\ StoreUnchanged
    /\ UNCHANGED <<metafields, submitted, last>>

IsFirstApprovalCall ==
  \E c \in Callers :
    /\ calls[c].pc = "isFirstApproval"
    /\ calls' = [calls EXCEPT ![c].pc =
                   IF isFirstApproval(Db, calls[c].id) THEN "syndicate" ELSE "sweep"]
    /\ StoreUnchanged
    /\ UNCHANGED <<metafields, submitted, last>>

(* reviewBundle.findUnique and productReview.findUnique *)
SyndicateRead ==
  \E c \in Callers :
    /\ calls[c].pc = "syndicate"
    /\ LET orig == reviews[calls[c].id]
           targets == SelectSeq(Split(BundleOfCall(c).productIds, ","),
                                LAMBDA t : t # getNumericProductId(orig.productId))
       IN calls' = [calls EXCEPT ![c].orig = orig,
                                 ![c].targets = targets,
                                 ![c].pc = IF targets = <<>> THEN "setStatus"
                                                             ELSE "findLink"]
    /\ StoreUnchanged
    /\ UNCHANGED <<metafields, submitted, last>>

(* reviewSyndication.findFirst for the current target *)
FindLink ==
  \E c \in Callers :
    /\ calls[c].pc = "findLink"
    /\ LET existing == {s \in reviewSyndication :
                          /\ s.originalReviewId = calls[c].id
                          /\ s.productId = Head(calls[c].targets)}
       IN calls' = [calls EXCEPT
                      ![c].found = IF existing = {} THEN 0
                                   ELSE SeqMin({s.id : s \in existing}),
                      ![c].pc = IF existing = {} THEN "createCopy"
                                                 ELSE "updateCopy"]
    /\ StoreUnchanged
    /\ UNCHANGED <<metafields, submitted, last>>

NextTarget(c) ==
  IF Tail(calls[c].targets) = <<>> THEN "setStatus" ELSE "findLink"

(* productReview.update of the copy the entry leads to *)
UpdateCopyRow ==
  \E c \in Callers :
    /\ calls[c].pc = "updateCopy"
    /\ WriteStore(UpdateCopy([db |-> Db, threw |-> FALSE, count |-> 0],
                             calls[c].orig,
                             RowOf(reviewSyndication, calls[c].found)
                               .syndicatedReviewId).db)
    /\ calls' = [calls EXCEPT ![c].targets = Tail(@), ![c].pc = NextTarget(c)]
    /\ UNCHANGED <<metafields, submitted, last>>

(* productReview.create of the copy *)
CreateCopyRow ==
  \E c \in Callers :
    /\ calls[c].pc = "createCopy"
    /\ reviews' = [i \in (DOMAIN reviews) \cup {nextId} |->
                     IF i = nextId
                       THEN CopyOf(calls[c].orig, Head(calls[c].targets),
                                   BundleOfCall(c), calls[c].id)
                       ELSE reviews[i]]
    /\ nextId' = nextId + 1
    /\ calls' = [calls EXCEPT ![c].copy = nextId, ![c].pc = "createBundleReview"]
    /\ UNCHANGED <<bundleReview, reviewSyndication, reviewBundle,
                   metafields, submitted, last>>

(* bundleReview.create *)
CreateBundleReviewRow ==
  \E c \in Callers :
    /\ calls[c].pc = "createBundleReview"
    /\ bundleReview' = bundleReview \cup
                       {[id |-> calls[c].copy,
                         bundleProductId |-> BundleOfCall(c).bundleProductId,
                         reviewId |-> calls[c].id,
                         productId |-> Head(calls[c].targets)]}
    /\ calls' = [calls EXCEPT ![c].pc = "createLink"]
    /\ UNCHANGED <<reviews, reviewSyndication, reviewBundle, nextId,
                   metafields, submitted, last>>

(* reviewSyndication.create *)
CreateLinkRow ==
  \E c \in Callers :
    /\ calls[c].pc = "createLink"
    /\ reviewSyndication' = reviewSyndication \cup
                            {[id |-> calls[c].copy,
                              originalReviewId |-> calls[c].id,
                              syndicatedReviewId |-> calls[c].copy,
                              bundleId |-> BundleOfCall(c).id,
                              productId |-> Head(calls[c].targets)]}
    /\ calls' = [calls EXCEPT ![c].targets = Tail(@), ![c].pc = NextTarget(c)]
    /\ UNCHANGED <<reviews, bundleReview, reviewBundle, nextId,
                   metafields, submitted, last>>

(* reviewSyndication.findMany of updateSyndicatedReviewsStatus *)
SweepRead ==
  \E c \in Callers :
    /\ calls[c].pc = "sweep"
    /\ LET entries == RowsById({s \in reviewSyndication :
                                  s.originalReviewId = calls[c].id})
       IN calls' = [calls EXCEPT ![c].entries = entries,
                                 ![c].pc = IF entries = <<>> THEN "setStatus"
                                                             ELSE "sweepUpdate"]
    /\ StoreUnchanged
    /\ UNCHANGED <<metafields, submitted, last>>

(* productReview.update of one swept copy *)
SweepUpdate ==
  \E c \in Callers :
    /\ calls[c].pc = "sweepUpdate"
    /\ WriteStore(UpdateEntryStatus([db |-> Db, count |-> 0],
                                    RowOf(reviewSyndication, Head(calls[c].entries)),
                                    "approved").db)
    /\ calls' = [calls EXCEPT ![c].entries = Tail(@),
                              ![c].pc = IF Tail(calls[c].entries) = <<>>
                                          THEN "setStatus" ELSE "sweepUpdate"]
    /\ UNCHANGED <<metafields, submitted, last>>

(* productReview.update of the review the request names *)
SetStatusRow ==
  \E c \in Callers :
    /\ calls[c].pc = "setStatus"
    /\ WriteStore(SetStatus(Db, calls[c].id, "approved"))
    /\ calls' = [calls EXCEPT ![c].pc = "publish"]
    /\ UNCHANGED <<metafields, submitted, last>>

(* calculateAndUpdateProductMetafields of one product *)
PublishProduct ==
  \E c \in Callers :
    /\ calls[c].pc = "publish"
    /\ metafields' = PublishOne(metafields, Db, Head(calls[c].products))
    /\ calls' = [calls EXCEPT ![c].products = Tail(@),
                              ![c].pc = IF Tail(calls[c].products) = <<>>
                                          THEN "done" ELSE "publish"]
    /\ StoreUnchanged
    /\ UNCHANGED <<submitted, last>>

NextRace ==
  \/ SubmitReview \/ StartApprove \/ IsFirstApprovalCall \/ SyndicateRead
  \/ FindLink \/ UpdateCopyRow \/ CreateCopyRow \/ CreateBundleReviewRow
  \/ CreateLinkRow \/ SweepRead \/ SweepUpdate \/ SetStatusRow
  \/ PublishProduct

SpecRace == Init /\ [][NextRace]_vars

----------------------------------------------------------------------------
(* Syndication of reviews whose copies have drifted: direct calls of       *)
(* syndicateReviewToBundle next to edits and status changes                *)

(* the status request that makes one review differ from its original *)
RejectOne ==
  /\ UNCHANGED submitted
  /\ \E id \in Ids :
       Apply(StatusAction(Db, id, "rejected", "individual"),
             "status", id, "rejected", "individual", NoForm)

NextCopy == SubmitReview \/ RejectOne \/ ResaveReview \/ SyndicateCall

SpecCopy == Init /\ [][NextCopy]_vars

----------------------------------------------------------------------------
(* The two sweeps over the entries of an original when a store call may    *)
(* throw: step says which call of an entry throws (0 for none): in          *)
(* removeSyndicatedReviews 1 is productReview.deleteMany, 2 is              *)
(* bundleReview.deleteMany and 3 is reviewSyndication.delete; in            *)
(* updateSyndicatedReviewsStatus 1 is productReview.update                  *)

RemoveSteps == 0..3
UpdateSteps == 0..1

RemoveEntryOrFail(db, originalReviewId, entry, step) ==
  LET d1 == DeleteReviewRow(db, entry.syndicatedReviewId)
      d2 == [d1 EXCEPT !.br = {x \in d1.br :
                                 ~(x.reviewId = originalReviewId
                                   /\ x.productId = entry.productId)}]
  IN CASE step = 1 -> [db |-> db, threw |-> TRUE]
       [] step = 2 -> [db |-> d1, threw |-> TRUE]
       [] step = 3 -> [db |-> d2, threw |-> TRUE]
       [] OTHER -> RemoveEntry(db, originalReviewId, entry)

(* Mutant: the first entry that throws ends the sweep *)
RECURSIVE RemoveLoopOrFail_Aborts(_, _, _, _)
RemoveLoopOrFail_Aborts(st, originalReviewId, ids, failing) ==
  IF ids = <<>> THEN st
  ELSE LET entry == RowOf(st.all, Head(ids))
           res == RemoveEntryOrFail(st.db, originalReviewId, entry,
                                    failing[Head(ids)])
       IN IF res.threw THEN [st EXCEPT !.db = res.db]
          ELSE RemoveLoopOrFail_Aborts([st EXCEPT !.db = res.db,
                                                  !.count = @ + 1],
                                       originalReviewId, Tail(ids), failing)

RECURSIVE RemoveLoopOrFail(_, _, _, _)
RemoveLoopOrFail(st, originalReviewId, ids, failing) ==
  IF ids = <<>> THEN st
  ELSE LET entry == RowOf(st.all, Head(ids))
           res == RemoveEntryOrFail(st.db, originalReviewId, entry,
                                    failing[Head(ids)])
       IN RemoveLoopOrFail([st EXCEPT !.db = res.db,
                                     !.count = IF res.threw THEN @ ELSE @ + 1],
                           originalReviewId, Tail(ids), failing)

(* Result: [db, success, count] *)
removeSyndicatedReviewsOrFail(db, originalReviewId, failing) ==
  LET entries == {s \in db.sy : s.originalReviewId = originalReviewId}
      st == RemoveLoopOrFail([db |-> db, count |-> 0, all |-> entries],
                             originalReviewId, RowsById(entries), failing)
  IN [db |-> st.db, success |-> TRUE, count |-> st.count]

(* Mutant: the first update that throws ends the sweep *)
RECURSIVE StatusLoopOrFail_Aborts(_, _, _, _)
StatusLoopOrFail_Aborts(st, ids, status, failing) ==
  IF ids = <<>> \/ failing[Head(ids)] = 1 THEN st
  ELSE StatusLoopOrFail_Aborts(
         UpdateEntryStatus(st, RowOf(st.all, Head(ids)), status),
         Tail(ids), status, failing)

RECURSIVE StatusLoopOrFail(_, _, _, _)
StatusLoopOrFail(st, ids, status, failing) ==
  IF ids = <<>> THEN st
  ELSE StatusLoopOrFail(
         IF failing[Head(ids)] = 1 THEN st
         ELSE UpdateEntryStatus(st, RowOf(st.all, Head(ids)), status),
         Tail(ids), status, failing)

(* Result: [db, success, count] *)
updateSyndicatedReviewsStatusOrFail(db, originalReviewId, status, failing) ==
  LET entries == {s \in db.sy : s.originalReviewId = originalReviewId}
      st == StatusLoopOrFail([db |-> db, count |-> 0, all |-> entries],
                             RowsById(entries), status, failing)
  IN [db |-> st.db, success |-> TRUE, count |-> st.count]

EntryIds(db, originalReviewId) ==
  {s.id : s \in {x \in db.sy : x.originalReviewId = originalReviewId}}

SweepEffect(res, op, id, status, failing) ==
  /\ WriteStore(res.db)
  /\ UNCHANGED <<metafields, submitted, calls>>
  /\ last' = [op |-> op, id |-> id, status |-> status, scope |-> "",
              form |-> NoForm, code |-> IF res.success THEN 200 ELSE 500,
              rep |-> FALSE, count |-> res.count, failed |-> failing,
              entries |-> {s \in reviewSyndication : s.originalReviewId = id},
              rows |-> DOMAIN reviews]

RemoveSweep ==
  \E id \in DOMAIN reviews :
    /\ EntryIds(Db, id) # {}
    /\ \E failing \in [EntryIds(Db, id) -> RemoveSteps] :
         SweepEffect(removeSyndicatedReviewsOrFail(Db, id, failing),
                     "removeAll", id, "", failing)

StatusSweep ==
  \E id \in DOMAIN reviews :
    /\ EntryIds(Db, id) # {}
    /\ \E status \in StatusInputs :
         \E failing \in [EntryIds(Db, id) -> UpdateSteps] :
           SweepEffect(updateSyndicatedReviewsStatusOrFail(Db, id, status,
                                                           failing),
                       "propagateStatus", id, status, failing)

NextSweep == SubmitReview \/ ApproveForBundle \/ RemoveSweep \/ StatusSweep

SpecSweep == Init /\ [][NextSweep]_vars

----------------------------------------------------------------------------
(* An edit whose productReview.update may throw: the images are removed    *)
(* before the update, and the catch of handleEditReview answers 500        *)

handleEditReviewOrFail(db, reviewId, form, productsToUpdate, bundleInfo, actionSource, updateThrows) ==
  IF EditInputError(form)
    THEN [db |-> db, code |-> 400, published |-> <<>>]
  ELSE IF updateThrows
    THEN [db |-> RemoveImages(db, reviewId, form.imagesToRemove),
          code |-> 500, published |-> <<>>]
  ELSE handleEditReview(db, reviewId, form, productsToUpdate, bundleInfo,
                        actionSource)

EditActionOrFail(db, reviewId, form, actionSource, updateThrows) ==
  IF ~Exists(db, reviewId)
    THEN [db |-> db, code |-> 404, published |-> <<>>]
    ELSE handleEditReviewOrFail(db, reviewId, form, ActionProducts(db, reviewId),
                                isReviewInBundle(db, reviewId), actionSource,
                                updateThrows)

(* a full edit, and an edit that also removes the images of the review *)
FailForms(reviewId) ==
  {BaseForm, [BaseForm EXCEPT !.imagesToRemove = ImageIdsOf(reviewId)]}

EditOrFail ==
  /\ UNCHANGED submitted
  /\ \E id \in DOMAIN reviews, scope \in Scopes, updateThrows \in BOOLEAN :
       \E form \in FailForms(id) :
         LET res == EditActionOrFail(Db, id, form, scope, updateThrows)
         IN /\ WriteStore(res.db)
            /\ metafields' = PublishAll(metafields, res.db, res.published)
            /\ calls' = calls
            /\ last' = [op |-> "edit", id |-> id, status |-> "",
                        scope |-> scope, form |-> form, code |-> res.code,
                        rep |-> FALSE, threw |-> updateThrows,
                        before |-> reviews[id]]

NextEditFail == SubmitReview \/ ApproveForBundle \/ EditOrFail

SpecEditFail == Init /\ [][NextEditFail]_vars

----------------------------------------------------------------------------
(* Reviews of products whose identifier is part of a member's identifier   *)

P1 == <<"1">>
P2 == <<"2">>

NearInputs ==
  {[productId |-> P1, rating |-> 4],
   [productId |-> P2, rating |-> 2],
   [productId |-> P12, rating |-> 5],
   [productId |-> P5, rating |-> 3]}

SubmitNear ==
  /\ submitted < MaxSubmits
  /\ submitted' = submitted + 1
  /\ \E input \in NearInputs :
       Apply(SubmitAction(Db, input.productId, input.rating, ImageUrls),
             "submit", nextId, "", "", NoForm)

NextNear == SubmitNear \/ ChangeStatus \/ DeleteReview

SpecNear == Init /\ [][NextNear]_vars

----------------------------------------------------------------------------
(* Bundle administration: the create-bundle, edit-bundle and delete-bundle *)
(* intents next to the lifecycle requests                                  *)

MaxBundleId == 2

(* the product lists a bundle form may carry; the first is the bundle's    *)
(* main product, and a list of one product is refused                      *)
BundleForms == {BundleMembers, <<P12, P3>>, <<P3>>}

(* ids are never handed out twice: a new bundle gets an id that no bundle  *)
(* and no syndication entry carries                                        *)
NewBundleId(db) ==
  LET used == {x.id : x \in db.b} \cup {s.bundleId : s \in db.sy} \cup {0}
  IN 1 + CHOOSE m \in used : \A k \in used : k <= m

BundleAction(db, intent, bundleId, bundleName, productIds) ==
  LET data == [name |-> bundleName, bundleProductId |-> productIds[1],
               productIds |-> Join(productIds, ",")]
  IN CASE intent \in {"create-bundle", "edit-bundle"} ->
            IF bundleName = "" \/ Len(productIds) < 2
              THEN [db |-> db, code |-> 400, published |-> <<>>]
            ELSE IF intent = "create-bundle"
              THEN IF \E x \in db.b : x.name = bundleName
                                     \/ x.bundleProductId = productIds[1]
                     THEN [db |-> db, code |-> 409, published |-> <<>>]
                     ELSE [db |-> [db EXCEPT !.b = @ \cup
                                     {[id |-> NewBundleId(db),
                                       name |-> data.name,
                                       bundleProductId |-> data.bundleProductId,
                                       productIds |-> data.productIds]}],
                           code |-> 200, published |-> <<>>]
            ELSE IF FindBundle(db, bundleId) = {}
              THEN [db |-> db, code |-> 500, published |-> <<>>]
              ELSE [db |-> [db EXCEPT !.b =
                              {IF x.id = bundleId
                                 THEN [id |-> x.id, name |-> data.name,
                                       bundleProductId |-> data.bundleProductId,
                                       productIds |-> data.productIds]
                                 ELSE x : x \in db.b}],
                    code |-> 200, published |-> <<>>]
       [] intent = "delete-bundle" ->
            IF FindBundle(db, bundleId) = {}
              THEN [db |-> db, code |-> 500, published |-> <<>>]
              ELSE [db |-> [db EXCEPT !.b = {x \in db.b : x.id # bundleId}],
                    code |-> 200, published |-> <<>>]
       [] OTHER -> [db |-> db, code |-> 400, published |-> <<>>]

ApplyBundle(res, intent, bundleId) ==
  /\ res.db # Db
  /\ \A x \in res.db.b : x.id <= MaxBundleId
  /\ WriteStore(res.db)
  /\ UNCHANGED <<metafields, calls>>
  /\ last' = [op |-> intent, id |-> bundleId, status |-> "", scope |-> "",
              form |-> NoForm, code |-> res.code, rep |-> FALSE]

CreateBundle ==
  /\ UNCHANGED submitted
  /\ \E productIds \in BundleForms :
    ApplyBundle(BundleAction(Db, "create-bundle", 0, "B1", productIds),
                "create-bundle", 0)

EditBundle ==
  /\ UNCHANGED submitted
  /\ \E bundleId \in 1..MaxBundleId : \E productIds \in BundleForms :
    ApplyBundle(BundleAction(Db, "edit-bundle", bundleId, "B1", productIds),
                "edit-bundle", bundleId)

DeleteBundle ==
  /\ UNCHANGED submitted
  /\ \E bundleId \in 1..MaxBundleId :
    ApplyBundle(BundleAction(Db, "delete-bundle", bundleId, "", <<>>),
                "delete-bundle", bundleId)

NextAdmin ==
  \/ SubmitReview \/ ChangeStatus \/ DeleteReview
  \/ CreateBundle \/ EditBundle \/ DeleteBundle

SpecAdmin == Init /\ [][NextAdmin]_vars

----------------------------------------------------------------------------
(* Vocabulary of the properties *)

MembersOf(b) == Range(Split(b.productIds, ","))

IsOriginal(db, i) == Exists(db, i) /\ ~db.r[i].isBundleReview

OnMember(db, i, b) == db.r[i].productId \in MembersOf(b)

LinksOf(db, o) == {s \in db.sy : s.originalReviewId = o}

CopyReviews(db) == {i \in DOMAIN db.r : db.r[i].isBundleReview}

(* the copies of o that the links of o lead to *)
CopiesOf(db, o) == {s.syndicatedReviewId : s \in LinksOf(db, o)} \cap DOMAIN db.r

(* c is a syndicated copy of an original o that a member product of b owns *)
IsCopyOf(db, c, o, b) ==
  /\ Exists(db, c) /\ db.r[c].isBundleReview
  /\ \E s \in LinksOf(db, o) : s.syndicatedReviewId = c
  /\ IsOriginal(db, o) /\ OnMember(db, o, b) /\ OnMember(db, c, b)

Aggregate(a) == [rating |-> ToFixed1(a.sum, a.count), count |-> a.count]

(* what the request leaves in the catalog for product p *)
Republished(res, p) ==
  /\ p \in Range(res.published)
  /\ PublishAll(metafields, res.db, res.published)[p]
       = Aggregate(computeAggregate(res.db, p))

----------------------------------------------------------------------------
(* C1: syndicate(o, b) called twice in a row for an original o owned by a  *)
(* member product of b: the second call leaves the copy reviews and their  *)
(* content as the first call left them, and there is exactly one           *)
(* SyndicationLink per target product.                                     *)
C1_SyndicateTwice ==
  [][(/\ last'.op = "syndicate" /\ last'.rep /\ last.code = 200
      /\ IsOriginal(Db, last'.id)
      /\ OnMember(Db, last'.id, TheBundle))
     => (/\ last'.code = 200
         /\ reviews' = reviews
         /\ reviewSyndication' = reviewSyndication
         /\ \A t \in MembersOf(TheBundle) \ {reviews[last'.id].productId} :
              Cardinality({s \in reviewSyndication' :
                             s.originalReviewId = last'.id /\ s.productId = t}) = 1)
    ]_vars

C1_Witness ==
  /\ last.op = "syndicate" /\ last.rep /\ last.code = 200
  /\ IsOriginal(Db, last.id) /\ OnMember(Db, last.id, TheBundle)
  /\ Cardinality(CopiesOf(Db, last.id)) = Len(BundleMembers) - 1
  /\ \E c \in CopiesOf(Db, last.id) : reviews[c].rating = reviews[last.id].rating

(* C2: for an original R owned by a member product of an N-product bundle, *)
(* ChangeStatus(R, approved, bundle) creates N-1 copies and N-1 links when *)
(* R has no link, and creates no copy and no link when R has links.        *)
C2_FirstApprovalFanOut ==
  \A R \in DOMAIN reviews : \A b \in reviewBundle :
    (IsOriginal(Db, R) /\ OnMember(Db, R, b)) =>
      LET res == StatusAction(Db, R, "approved", "bundle")
          N == Cardinality(MembersOf(b))
      IN IF LinksOf(Db, R) = {}
           THEN /\ Cardinality(CopyReviews(res.db) \ CopyReviews(Db)) = N - 1
                /\ Cardinality(res.db.sy \ Db.sy) = N - 1
                /\ Cardinality(LinksOf(res.db, R)) = N - 1
                /\ Cardinality(CopiesOf(res.db, R)) = N - 1
           ELSE /\ CopyReviews(res.db) = CopyReviews(Db)
                /\ res.db.sy = Db.sy
                /\ (Cardinality(CopiesOf(Db, R)) = N - 1
                      => Cardinality(CopiesOf(res.db, R)) = N - 1)

C2_Witness ==
  /\ last.op = "status" /\ last.status = "approved" /\ last.scope = "bundle"
  /\ last.code = 200
  /\ IsOriginal(Db, last.id) /\ OnMember(Db, last.id, TheBundle)
  /\ Cardinality(CopiesOf(Db, last.id)) = Len(BundleMembers) - 1
  /\ Cardinality(LinksOf(Db, last.id)) = Len(BundleMembers) - 1

(* C3: when R, owned by a member product, is approved and syndicated to    *)
(* every other member, and no review other than R and its copies is        *)
(* approved, computeAggregate of every member product reports count 1 and  *)
(* mean R's rating.                                                        *)
SyndicatedEverywhere(db, R, b) ==
  /\ IsOriginal(db, R) /\ OnMember(db, R, b)
  /\ db.r[R].status = "approved"
  /\ \A t \in MembersOf(b) \ {db.r[R].productId} :
       \E s \in LinksOf(db, R) :
         /\ s.productId = t
         /\ Exists(db, s.syndicatedReviewId)
         /\ db.r[s.syndicatedReviewId].status = "approved"
  /\ \A i \in DOMAIN db.r :
       db.r[i].status = "approved" => i = R \/ i \in CopiesOf(db, R)

C3_NoDoubleCounting ==
  \A R \in DOMAIN reviews : \A b \in reviewBundle :
    SyndicatedEverywhere(Db, R, b) =>
      \A p \in MembersOf(b) :
        computeAggregate(Db, p) = [count |-> 1, sum |-> reviews[R].rating]

C3_Witness ==
  /\ last.op = "status" /\ last.status = "approved" /\ last.scope = "bundle"
  /\ SyndicatedEverywhere(Db, last.id, TheBundle)
  /\ Cardinality(MembersOf(TheBundle)) = 3

(* C4: ChangeStatus(c, rejected, individual) on a syndicated copy c        *)
(* changes c's status and nothing else in the store: the original and the  *)
(* sibling copies keep their status, no copy and no SyndicationLink is     *)
(* created or removed, and c's product alone is re-aggregated and          *)
(* republished.                                                            *)
C4_IndividualRejectOfCopy ==
  \A c \in DOMAIN reviews : \A o \in DOMAIN reviews : \A b \in reviewBundle :
    IsCopyOf(Db, c, o, b) =>
      LET res == StatusAction(Db, c, "rejected", "individual")
      IN /\ res.code = 200
         /\ res.db.r = [reviews EXCEPT ![c].status = "rejected"]
         /\ res.db.sy = reviewSyndication
         /\ res.db.br = bundleReview
         /\ res.published = <<reviews[c].productId>>
         /\ Republished(res, reviews[c].productId)

C4_Witness ==
  /\ last.op = "status" /\ last.status = "rejected" /\ last.scope = "individual"
  /\ last.code = 200
  /\ \E o \in DOMAIN reviews :
       /\ IsCopyOf(Db, last.id, o, TheBundle)
       /\ reviews[last.id].status = "rejected"
       /\ reviews[o].status = "approved"
       /\ \E sib \in CopiesOf(Db, o) \ {last.id} : reviews[sib].status = "approved"

(* C5: ChangeStatus(o, s, bundle) with s rejected or pending, on an        *)
(* original o whose product is in a bundle, sets status s on o and on      *)
(* every existing copy of o, and re-aggregates and republishes o's product *)
(* and every member product of the bundle.                                 *)
C5_BundleStatusFromOriginal ==
  \A o \in DOMAIN reviews : \A b \in reviewBundle :
    (IsOriginal(Db, o) /\ OnMember(Db, o, b)) =>
      \A s \in {"rejected", "pending"} :
        LET res == StatusAction(Db, o, s, "bundle")
        IN /\ res.code = 200
           /\ res.db.r[o].status = s
           /\ \A c \in CopiesOf(Db, o) :
                Exists(res.db, c) /\ res.db.r[c].status = s
           /\ CopiesOf(res.db, o) = CopiesOf(Db, o)
           /\ \A p \in {reviews[o].productId} \cup MembersOf(b) :
                Republished(res, p)

C5_Witness ==
  /\ last.op = "status" /\ last.status \in {"rejected", "pending"}
  /\ last.scope = "bundle" /\ last.code = 200
  /\ IsOriginal(Db, last.id) /\ OnMember(Db, last.id, TheBundle)
  /\ Cardinality(CopiesOf(Db, last.id)) = Len(BundleMembers) - 1
  /\ \A i \in {last.id} \cup CopiesOf(Db, last.id) :
       reviews[i].status = last.status
  /\ \A p \in MembersOf(TheBundle) :
       p \in DOMAIN metafields /\ metafields[p].count = 0

(* C6: ChangeStatus(c, s, bundle) with s rejected or pending, on a         *)
(* syndicated copy c of an original o in a bundle, leaves o and every copy *)
(* of o, c included, with status s.                                        *)
C6_BundleStatusFromCopy ==
  \A c \in DOMAIN reviews : \A o \in DOMAIN reviews : \A b \in reviewBundle :
    IsCopyOf(Db, c, o, b) =>
      \A s \in {"rejected", "pending"} :
        LET res == StatusAction(Db, c, s, "bundle")
        IN /\ res.code = 200
           /\ res.db.r[o].status = s
           /\ \A k \in CopiesOf(Db, o) :
                Exists(res.db, k) /\ res.db.r[k].status = s

(* C7: DeleteReview(x, bundle), x an original whose product is in a bundle *)
(* or a copy of such an original, removes the original, every copy and     *)
(* every SyndicationLink; afterwards computeAggregate of no member product *)
(* counts the review, and every member product is re-aggregated and        *)
(* republished.                                                            *)
C7_BundleDelete ==
  \A x \in DOMAIN reviews : \A o \in DOMAIN reviews : \A b \in reviewBundle :
    ((x = o /\ IsOriginal(Db, o) /\ OnMember(Db, o, b)) \/ IsCopyOf(Db, x, o, b)) =>
      LET res == DeleteAction(Db, x, "bundle")
          gone == {o} \cup CopiesOf(Db, o)
      IN /\ res.code = 200
         /\ gone \cap DOMAIN res.db.r = {}
         /\ LinksOf(res.db, o) = {}
         /\ \A p \in MembersOf(b) :
              /\ \A k \in RatingMapKeys(res.db, p) : k.reviewId \notin gone
              /\ Republished(res, p)

C7_Witness ==
  /\ last.op = "delete" /\ last.scope = "bundle" /\ last.code = 200
  /\ last.id > 1 /\ nextId = Len(BundleMembers) + 1
  /\ DOMAIN reviews = {} /\ reviewSyndication = {} /\ bundleReview = {}
  /\ \A p \in MembersOf(TheBundle) :
       p \in DOMAIN metafields /\ metafields[p].count = 0

(* C8: DeleteReview(c, individual) on a syndicated copy c whose product is *)
(* in a bundle removes c and its SyndicationLink and nothing else, answers *)
(* ok, and re-aggregates and republishes c's product.                      *)
C8_IndividualDeleteOfCopy ==
  \A c \in DOMAIN reviews : \A o \in DOMAIN reviews : \A b \in reviewBundle :
    IsCopyOf(Db, c, o, b) =>
      LET res == DeleteAction(Db, c, "individual")
      IN /\ res.code = 200
         /\ DOMAIN res.db.r = (DOMAIN reviews) \ {c}
         /\ \A i \in (DOMAIN reviews) \ {c} : res.db.r[i] = reviews[i]
         /\ res.db.sy = {s \in reviewSyndication : s.syndicatedReviewId # c}
         /\ Republished(res, reviews[c].productId)

(* C9: DeleteReview(o, individual) on an original o whose product is in a  *)
(* bundle removes o, every copy of o and every SyndicationLink of o.       *)
C9_IndividualDeleteOfOriginal ==
  \A o \in DOMAIN reviews : \A b \in reviewBundle :
    (IsOriginal(Db, o) /\ OnMember(Db, o, b)) =>
      LET res == DeleteAction(Db, o, "individual")
      IN /\ res.code = 200
         /\ ({o} \cup CopiesOf(Db, o)) \cap DOMAIN res.db.r = {}
         /\ LinksOf(res.db, o) = {}
         /\ \A i \in DOMAIN res.db.r :
              ~(res.db.r[i].isBundleReview
                /\ res.db.r[i].bundleContext = <<b.name, o>>)

C9_Witness ==
  /\ last.op = "delete" /\ last.scope = "individual" /\ last.code = 200
  /\ last.id = 1 /\ nextId = Len(BundleMembers) + 1
  /\ DOMAIN reviews = {} /\ reviewSyndication = {}

(* C10: EditReview with a rating outside 1..5, a rating that is not a     *)
(* number, or a missing title, content, rating or author answers          *)
(* InvalidInput and mutates nothing: the stored review, its images, its   *)
(* copies and the published aggregates are unchanged.                     *)
IsNumeral(text) ==
  /\ text # <<>>
  /\ \A i \in 1..Len(text) : text[i] \in DOMAIN DigitValue

InvalidEdit(form) ==
  \/ \E f \in {"title", "content", "rating", "author"} : Falsy(form, f)
  \/ ~IsNumeral(form.rating)
  \/ DigitsToInt(form.rating) \notin 1..5

C10_InvalidEditRejected ==
  \A id \in DOMAIN reviews : \A scope \in Scopes : \A form \in EditForms(id) :
    InvalidEdit(form) =>
      LET res == EditAction(Db, id, form, scope)
      IN /\ res.code = 400
         /\ res.db = Db
         /\ PublishAll(metafields, res.db, res.published) = metafields

(* C11: EditReview accepts a form with no email; a form whose email is    *)
(* present and not well-formed is answered InvalidInput and mutates       *)
(* neither the review, nor its images, nor its copies.                    *)
C11_EmailValidatedOnEdit ==
  \A id \in DOMAIN reviews : \A scope \in Scopes : \A form \in EditForms(id) :
    ~InvalidEdit(form) =>
      LET res == EditAction(Db, id, form, scope)
      IN /\ Falsy(form, "email") => res.code = 200
         /\ (~Falsy(form, "email") /\ ~WellFormedEmail(form.email)) =>
              (res.code = 400 /\ res.db = Db)

(* C12: computeAggregate(P) has count = the number of approved non-copy   *)
(* reviews owned by P plus the number of distinct approved syndicated      *)
(* entries targeting P (an entry is taken as approved when the review the  *)
(* bundleReview row is joined to is approved), and mean = the sum of their *)
(* ratings / count, or count 0 and mean 0 when there is no entry; ratings  *)
(* 3, 4, 5 give count 3 and mean 4.0.  The published values are these.    *)
DirectEntries(p) ==
  {i \in DOMAIN reviews : /\ reviews[i].productId = p
                          /\ reviews[i].status = "approved"
                          /\ ~reviews[i].isBundleReview}

SyndicatedEntries(p) ==
  {<<x.bundleProductId, x.reviewId>> :
     x \in {y \in bundleReview : /\ y.productId = p
                                 /\ y.reviewId \in DOMAIN reviews
                                 /\ reviews[y.reviewId].status = "approved"}}

EntriesRated(p, v) ==
  Cardinality({i \in DirectEntries(p) : reviews[i].rating = v})
  + Cardinality({e \in SyndicatedEntries(p) : reviews[e[2]].rating = v})

C12_AggregateCountAndMean ==
  \A p \in Range(BundleMembers) :
    LET n == Cardinality(DirectEntries(p)) + Cardinality(SyndicatedEntries(p))
        total == EntriesRated(p, 1) + 2 * EntriesRated(p, 2)
                 + 3 * EntriesRated(p, 3) + 4 * EntriesRated(p, 4)
                 + 5 * EntriesRated(p, 5)
        a == computeAggregate(Db, p)
    IN /\ a.count = n
       /\ a.sum = total
       /\ p \in DOMAIN metafields =>
            /\ metafields[p].count = n
            /\ n = 0 => metafields[p].rating = 0
            /\ n > 0 =>
                 (total * 20 - n < 2 * n * metafields[p].rating
                  /\ 2 * n * metafields[p].rating <= total * 20 + n)
       /\ ({reviews[i].rating : i \in DirectEntries(p)} = {3, 4, 5} /\ n = 3) =>
            (a.count = 3 /\ a.sum = 4 * a.count
             /\ (p \in DOMAIN metafields => metafields[p].rating = 40))

C12_Witness ==
  /\ P3 \in DOMAIN metafields /\ metafields[P3] = [rating |-> 40, count |-> 3]
  /\ {reviews[i].rating : i \in DirectEntries(P3)} = {3, 4, 5}
  /\ P4 \in DOMAIN metafields /\ metafields[P4].count = 2
  /\ Cardinality(SyndicatedEntries(P4)) = 2

(* C13: computeAggregate(P) counts the syndicated entry of an original o   *)
(* targeting P exactly when the copy of o that lives on P is approved,     *)
(* whatever the status of o.                                               *)
C13_CopyStatusDecidesEntry ==
  \A c \in DOMAIN reviews : \A o \in DOMAIN reviews : \A b \in reviewBundle :
    IsCopyOf(Db, c, o, b) =>
      ((\E k \in RatingMapKeys(Db, reviews[c].productId) :
          k.kind = "syndicated" /\ k.reviewId = o)
       <=> reviews[c].status = "approved")

C15_OverlappingApprovalsConverge ==
  (\A c \in Callers : calls[c].pc = "done") =>
    LET R == calls["a"].id
    IN /\ reviews[R].status = "approved"
       /\ \A t \in MembersOf(TheBundle) \ {reviews[R].productId} :
            /\ Cardinality({s \in LinksOf(Db, R) : s.productId = t}) = 1
            /\ Cardinality({i \in DOMAIN reviews :
                              /\ reviews[i].isBundleReview
                              /\ reviews[i].productId = t
                              /\ reviews[i].bundleContext = <<TheBundle.name, R>>}) = 1

(* the mutation of the store that a request of the given kind leaves behind *)
MutationStands(l) ==
  CASE l.op = "submit" ->
         /\ l.id \in DOMAIN reviews
         /\ reviews[l.id].productId = l.input.productId
         /\ reviews[l.id].status = "pending"
    [] l.op = "status" ->
         /\ l.id \in DOMAIN reviews
         /\ reviews[l.id].status = l.status
    [] l.op = "edit" ->
         /\ l.id \in DOMAIN reviews
         /\ reviews[l.id].title = l.form.title
         /\ reviews[l.id].status = l.form.status
    [] l.op = "delete" -> l.id \notin DOMAIN reviews
    [] OTHER -> TRUE

(* C16: when the aggregation read or the catalog publish of one affected  *)
(* product fails during a submission, a status change, an edit or a       *)
(* deletion, the store holds the request's mutations all the same, the     *)
(* failing product's published aggregate is left as it was, and every      *)
(* other affected product is re-aggregated and published.                 *)
C16_PublishFailureIsLocal ==
  last.code \in {200, 201} =>
    /\ MutationStands(last)
    /\ \A p \in Range(last.published) :
         IF p \in last.failed
           THEN /\ (p \in DOMAIN metafields) = (p \in DOMAIN last.prior)
                /\ p \in DOMAIN metafields => metafields[p] = last.prior[p]
           ELSE /\ p \in DOMAIN metafields
                /\ metafields[p] = Aggregate(computeAggregate(Db, p))

C16_Witness ==
  /\ last.op = "status" /\ last.status = "approved" /\ last.scope = "bundle"
  /\ last.code = 200
  /\ last.failed = {BundleMembers[2]}
  /\ IsOriginal(Db, last.id) /\ reviews[last.id].status = "approved"
  /\ Cardinality(CopiesOf(Db, last.id)) = Len(BundleMembers) - 1
  /\ BundleMembers[2] \notin DOMAIN metafields
  /\ \A p \in MembersOf(TheBundle) \ {BundleMembers[2]} :
       p \in DOMAIN metafields /\ metafields[p].count = 1

NotFound(res) == res = [db |-> Db, code |-> 404, published |-> <<>>]

(* C17: a status change, an edit or a deletion of a review id that the    *)
(* store does not hold, whether never created or already deleted, answers *)
(* not found (404), leaves the store as it is and publishes nothing.      *)
C17_MissingReviewNotFound ==
  \A id \in Ids \ DOMAIN reviews : \A scope \in Scopes :
    /\ \A status \in StatusInputs :
         NotFound(StatusAction(Db, id, status, scope))
    /\ \A form \in EditForms(id) \cup {ResaveForm} :
         NotFound(EditAction(Db, id, form, scope))
    /\ NotFound(DeleteAction(Db, id, scope))

C17_Witness ==
  /\ last.op = "delete"
  /\ last.id < nextId /\ last.id \notin DOMAIN reviews
  /\ NotFound(DeleteAction(Db, last.id, "bundle"))
  /\ NotFound(StatusAction(Db, last.id, "approved", "bundle"))
  /\ NotFound(EditAction(Db, last.id, BaseForm, "individual"))

LifecycleStatuses == {"pending", "approved", "rejected"}

(* C18: in every reachable state every stored review, original or copy,   *)
(* has a status among pending, approved and rejected, whatever status     *)
(* value a status change or an edit is called with.                       *)
C18_StatusInLifecycle ==
  \A i \in DOMAIN reviews : reviews[i].status \in LifecycleStatuses

(* C19: an accepted edit with scope individual of a review whose product  *)
(* is in a bundle re-aggregates and republishes the review's own product  *)
(* only; with scope bundle it republishes every member product.           *)
C19_IndividualEditPublishesOwn ==
  \A id \in DOMAIN reviews : \A form \in EditForms(id) :
    \A b \in reviewBundle :
      LET individual == EditAction(Db, id, form, "individual")
          bundle == EditAction(Db, id, form, "bundle")
      IN OnMember(Db, id, b) =>
           /\ individual.code = 200 =>
                Range(individual.published) = {reviews[id].productId}
           /\ bundle.code = 200 =>
                Range(bundle.published) = MembersOf(b)

(* C20: a bundle-scope approval of a syndicated copy x applies the first- *)
(* approval test and the fan-out to the original o of x: it creates no    *)
(* copy review and no link whose original is x, and it leaves o approved. *)
C20_ApprovalAppliesToOriginal ==
  \A x \in DOMAIN reviews : \A o \in DOMAIN reviews : \A b \in reviewBundle :
    IsCopyOf(Db, x, o, b) =>
      LET res == StatusAction(Db, x, "approved", "bundle")
      IN /\ res.code = 200
         /\ LinksOf(res.db, x) = {}
         /\ CopyReviews(res.db) = CopyReviews(Db)
         /\ res.db.r[o].status = "approved"

(* the customer-submitted review that a review descends from: itself, or *)
(* the original that the links lead back to from a copy                   *)
RECURSIVE RootOf(_, _, _)
RootOf(db, i, fuel) ==
  IF fuel = 0 \/ ~Exists(db, i) \/ ~db.r[i].isBundleReview THEN i
  ELSE LET o == findOriginalReviewId(db, i)
       IN IF o = 0 THEN i ELSE RootOf(db, o, fuel - 1)

CountedOnce(db) ==
  \A p \in Range(BundleMembers) \cup {P5} :
    \A k1 \in RatingMapKeys(db, p) : \A k2 \in RatingMapKeys(db, p) :
      RootOf(db, k1.reviewId, Cardinality(DOMAIN db.r))
        = RootOf(db, k2.reviewId, Cardinality(DOMAIN db.r)) => k1 = k2

(* C21: in every state reached by status changes, edits and deletions, of *)
(* either scope, against originals or copies, computeAggregate(P) counts  *)
(* each customer-submitted review at most once, for every product P.      *)
C21_OriginalCountedOnce ==
  /\ CountedOnce(Db)
  /\ \A id \in DOMAIN reviews : \A scope \in Scopes :
       /\ \A status \in StatusInputs :
            CountedOnce(StatusAction(Db, id, status, scope).db)
       /\ CountedOnce(EditAction(Db, id, BaseForm, scope).db)
       /\ CountedOnce(DeleteAction(Db, id, scope).db)

(* C22: in every state reached by lifecycle requests and bundle           *)
(* administration, every SyndicationLink refers to an original and a copy *)
(* that are both in the store, and every review that is a copy is         *)
(* referenced by exactly one SyndicationLink.                             *)
C22_LinksAndCopiesAgree ==
  /\ \A s \in reviewSyndication :
       /\ s.originalReviewId \in DOMAIN reviews
       /\ s.syndicatedReviewId \in DOMAIN reviews
  /\ \A c \in CopyReviews(Db) :
       Cardinality({s \in reviewSyndication : s.syndicatedReviewId = c}) = 1

(* the catalog holds for p what computeAggregate gives on the store; a   *)
(* product never published has nothing to count                           *)
Fresh(p) ==
  IF p \in DOMAIN metafields
    THEN metafields[p] = Aggregate(computeAggregate(Db, p))
    ELSE computeAggregate(Db, p).count = 0

(* C23: after every status change, edit or deletion that completes, of    *)
(* either scope, the aggregate last published for every product equals    *)
(* computeAggregate of the product on the resulting store.                *)
C23_NoStalePublishedAggregate ==
  (last.op \in {"status", "edit", "delete"} /\ last.code = 200) =>
    \A p \in Range(BundleMembers) \cup {P5} : Fresh(p)

(* the copies of o on product t: the copy reviews on t that a link of o   *)
(* leads to                                                               *)
CopiesOn(db, o, t) ==
  {c \in CopiesOf(db, o) : db.r[c].isBundleReview /\ db.r[c].productId = t}

SameContent(c, o) ==
  /\ c.rating = o.rating /\ c.author = o.author /\ c.email = o.email
  /\ c.title = o.title /\ c.content = o.content /\ c.images = o.images

(* what syndicateReviewToBundle(o, b) has to leave in the store *)
Syndicated(db, o, b) ==
  LET own == db.r[o].productId
  IN /\ \A t \in MembersOf(b) \ {own} :
          /\ Cardinality(CopiesOn(db, o, t)) = 1
          /\ Cardinality({s \in LinksOf(db, o) : s.productId = t}) = 1
          /\ \A c \in CopiesOn(db, o, t) :
               /\ db.r[c].status = "approved"
               /\ SameContent(db.r[c], db.r[o])
     /\ CopiesOn(db, o, own) = {}
     /\ ~\E s \in LinksOf(db, o) : s.productId = own

(* C24: after syndicateReviewToBundle(o, b) completes with success, every *)
(* member product of b other than o's own has exactly one copy of o,      *)
(* which is flagged as a copy, approved, and equal to o in rating,        *)
(* author, email, title, content and images; o's own product has none.    *)
C24_SyndicateCopiesOriginal ==
  /\ (last.op = "syndicate" /\ last.code = 200 /\ IsOriginal(Db, last.id))
       => Syndicated(Db, last.id, TheBundle)
  /\ \A o \in DOMAIN reviews : \A b \in reviewBundle :
       LET res == syndicateReviewToBundle(Db, o, b.id)
       IN (IsOriginal(Db, o) /\ res.success) => Syndicated(res.db, o, b)

C24_Witness ==
  \E o \in DOMAIN reviews : \E c \in DOMAIN reviews :
    LET res == syndicateReviewToBundle(Db, o, TheBundle.id)
    IN /\ IsCopyOf(Db, c, o, TheBundle)
       /\ reviews[c].rating # reviews[o].rating
       /\ reviews[c].status = "rejected"
       /\ res.success /\ res.count = Len(BundleMembers) - 1
       /\ res.db.r[c].rating = reviews[o].rating
       /\ res.db.r[c].status = "approved"

SameFields(c, o) ==
  /\ c.rating = o.rating /\ c.author = o.author /\ c.email = o.email
  /\ c.title = o.title /\ c.content = o.content

(* C25: an accepted bundle-scope edit of an original o whose product is   *)
(* in a bundle leaves every copy linked to o with o's new rating, author, *)
(* email, title and content, and creates or removes no copy and no link.  *)
C25_BundleEditReachesCopies ==
  \A o \in DOMAIN reviews : \A b \in reviewBundle : \A form \in EditForms(o) :
    LET res == EditAction(Db, o, form, "bundle")
    IN (IsOriginal(Db, o) /\ OnMember(Db, o, b) /\ res.code = 200) =>
         /\ res.db.r[o].title = form.title
         /\ res.db.r[o].content = form.content
         /\ res.db.r[o].author = form.author
         /\ res.db.r[o].rating = ParseInt(form.rating).value
         /\ \A c \in CopiesOf(Db, o) : SameFields(res.db.r[c], res.db.r[o])
         /\ DOMAIN res.db.r = DOMAIN reviews
         /\ CopyReviews(res.db) = CopyReviews(Db)
         /\ res.db.sy = reviewSyndication

C25_Witness ==
  /\ last.op = "edit" /\ last.scope = "bundle" /\ last.code = 200
  /\ last.form = ResaveForm
  /\ IsOriginal(Db, last.id) /\ reviews[last.id].productId = P3
  /\ Cardinality(CopiesOf(Db, last.id)) = Len(BundleMembers) - 1
  /\ reviews[last.id].rating = 5
  /\ \A c \in CopiesOf(Db, last.id) :
       SameFields(reviews[c], reviews[last.id])

(* a status update throws by itself when the copy of the entry is gone *)
(* C26: in removeSyndicatedReviews and updateSyndicatedReviewsStatus a   *)
(* store call that throws for one entry does not end the sweep: every     *)
(* other entry of the original is processed (its copy and the entry are   *)
(* removed, or its copy has the new status), and the count reported is    *)
(* the number of entries processed without a throw.                       *)
C26_SweepSurvivesFailure ==
  /\ last.op = "removeAll" =>
       LET done == {s \in last.entries : last.failed[s.id] = 0}
       IN /\ last.code = 200
          /\ last.count = Cardinality(done)
          /\ \A s \in done : /\ s \notin reviewSyndication
                               /\ s.syndicatedReviewId \notin DOMAIN reviews
  /\ last.op = "propagateStatus" =>
       LET done == {s \in last.entries : /\ last.failed[s.id] = 0
                                         /\ s.syndicatedReviewId \in last.rows}
       IN /\ last.code = 200
          /\ last.count = Cardinality(done)
          /\ \A s \in done : reviews[s.syndicatedReviewId].status = last.status

C26_Witness ==
  /\ last.op = "removeAll" /\ last.count = 1
  /\ Cardinality(last.entries) = 2
  /\ \E s \in last.entries :
       /\ last.failed[s.id] = 3 /\ s \in reviewSyndication
       /\ s.id = SeqMin({x.id : x \in last.entries})

(* C27: when the productReview.update of an edit throws, the request      *)
(* answers with the error and the target review is as it was before the   *)
(* request: its fields and its images, those listed for removal included. *)
C27_FailedEditChangesNothing ==
  (last.op = "edit" /\ last.threw) =>
    /\ last.code = 500
    /\ reviews[last.id] = last.before

(* C28: an accepted edit that carries no status value leaves the stored   *)
(* status of the target review, and of every copy the edit is propagated  *)
(* to, as it was.                                                         *)
C28_EditWithoutStatusKeepsStatus ==
  \A id \in DOMAIN reviews : \A scope \in Scopes : \A form \in EditForms(id) :
    LET res == EditAction(Db, id, form, scope)
    IN ("status" \notin form.has /\ res.code = 200) =>
         /\ res.db.r[id].status = reviews[id].status
         /\ \A c \in CopiesOf(Db, id) : res.db.r[c].status = reviews[c].status

(* C29: isReviewInBundle reports a review as in bundle b only when the    *)
(* product of the review is one of the member products of b; a review     *)
(* whose product is a member of no bundle is not reported as in a bundle. *)
C29_InBundleMeansMember ==
  \A r \in DOMAIN reviews :
    LET info == isReviewInBundle(Db, r)
    IN info.inBundle =>
         \E b \in reviewBundle :
           b.id = info.bundleId /\ reviews[r].productId \in MembersOf(b)

(* ---------------------------------------------------------------------- *)
(* Storefront listing: the two loaders that return the reviews of a       *)
(* product.  createdAt is the order of the review ids.                    *)
(* ---------------------------------------------------------------------- *)

(* productReview.findMany: approved reviews of the product, copies excluded *)
directReviews(db, productId) ==
  {i \in DOMAIN db.r : /\ db.r[i].status = "approved"
                       /\ db.r[i].productId = productId
                       /\ db.r[i].isBundleReview = FALSE}

(* Mutant: the bundleReview rows are taken whatever the joined review's status *)
syndicatedBundleReviews_AnyStatus(db, productId) ==
  {x \in db.br : x.productId = productId /\ x.reviewId \in DOMAIN db.r}

(* bundleReview.findMany: rows of the product whose joined review is approved *)
syndicatedBundleReviews(db, productId) ==
  {x \in db.br : /\ x.productId = productId
                 /\ x.reviewId \in DOMAIN db.r
                 /\ db.r[x.reviewId].status = "approved"}

DirectKey(id) == [kind |-> "direct", bundleProductId |-> <<>>, reviewId |-> id]

SyndicatedKey(bundleEntry) ==
  [kind |-> "syndicated", bundleProductId |-> bundleEntry.bundleProductId,
   reviewId |-> bundleEntry.reviewId]

ListedReview(db, id, productId, isSyndicated) ==
  [id |-> id, productId |-> productId, rating |-> db.r[id].rating,
   status |-> db.r[id].status, isSyndicated |-> isSyndicated]

(* syndicatedReviews.forEach: a row is added unless its key is present *)
RECURSIVE AddSyndicated(_, _, _, _)
AddSyndicated(map, rows, db, productId) ==
  IF rows = {} THEN map
  ELSE LET bundleEntry == CHOOSE x \in rows : TRUE
           uniqueKey == SyndicatedKey(bundleEntry)
           added == IF uniqueKey \in DOMAIN map THEN map
                    ELSE map @@ (uniqueKey :>
                           ListedReview(db, bundleEntry.reviewId, productId, TRUE))
       IN AddSyndicated(added, rows \ {bundleEntry}, db, productId)

uniqueReviewsMap(db, productId) ==
  AddSyndicated([k \in {DirectKey(i) : i \in directReviews(db, productId)} |->
                   ListedReview(db, k.reviewId, db.r[k.reviewId].productId, FALSE)],
                syndicatedBundleReviews(db, productId), db, productId)

(* the values of a map, newest review first *)
RECURSIVE NewestFirst(_, _)
NewestFirst(map, keys) ==
  IF keys = {} THEN <<>>
  ELSE LET k == CHOOSE x \in keys : \A y \in keys : map[y].id <= map[x].id
       IN <<map[k]>> \o NewestFirst(map, keys \ {k})

(* the values of a map in insertion order of the syndicated rows *)
RECURSIVE InAnyOrder(_, _)
InAnyOrder(map, keys) ==
  IF keys = {} THEN <<>>
  ELSE LET k == CHOOSE x \in keys : TRUE
       IN <<map[k]>> \o InAnyOrder(map, keys \ {k})

GidPrefix ==
  <<"g", "i", "d", ":", "/", "/", "s", "h", "o", "p", "i", "f", "y", "/",
    "P", "r", "o", "d", "u", "c", "t", "/">>

(* productId.startsWith('gid://shopify/Product/') ? split('/').pop() || orElse *)
StripGid(productId, orElse) ==
  IF /\ Len(productId) >= Len(GidPrefix)
     /\ SubSeq(productId, 1, Len(GidPrefix)) = GidPrefix
    THEN IF getNumericProductId(productId) = <<>> THEN orElse
         ELSE getNumericProductId(productId)
    ELSE productId

(* GET /reviews?product_id=: public review listing *)
listingLoader(db, productId) ==
  LET numericProductId == StripGid(productId, productId)
      map == uniqueReviewsMap(db, numericProductId)
  IN [code |-> 200, keys |-> DOMAIN map,
      reviews |-> NewestFirst(map, DOMAIN map)]

(* GET /api/productreview?productId=: reviews of one product *)
productReviewLoader(db, productId) ==
  LET numericProductId == StripGid(productId, <<>>)
      map == uniqueReviewsMap(db, numericProductId)
      direct == {k \in DOMAIN map : k.kind = "direct"}
  IN IF \E i \in 1..Len(numericProductId) :
          numericProductId[i] \notin DOMAIN DigitValue
       THEN [code |-> 400, keys |-> {}, reviews |-> <<>>]
     ELSE IF numericProductId = <<>>
       THEN [code |-> 400, keys |-> {}, reviews |-> <<>>]
     ELSE [code |-> 200, keys |-> DOMAIN map,
           reviews |-> NewestFirst(map, direct)
                       \o InAnyOrder(map, DOMAIN map \ direct)]

ListedProducts == Range(BundleMembers) \cup {P5}

RECURSIVE RatingTotal(_)
RatingTotal(listed) ==
  IF listed = <<>> THEN 0 ELSE Head(listed).rating + RatingTotal(Tail(listed))

(* C30: for every product and every store, each of the two storefront     *)
(* listings of the product returns one review per key that                *)
(* computeAggregate counts for it (the same approved direct reviews and   *)
(* the same syndicated entries, under the same keys), so the listings     *)
(* have as many reviews, with the same rating total, as the count and sum *)
(* computeAggregate gives, and as the count published from that store.    *)
C30_ListingMatchesAggregate ==
  \A p \in ListedProducts :
    LET a == computeAggregate(Db, p)
        pub == listingLoader(Db, p)
        api == productReviewLoader(Db, p)
    IN /\ pub.code = 200 /\ api.code = 200
       /\ pub.keys = RatingMapKeys(Db, p)
       /\ api.keys = RatingMapKeys(Db, p)
       /\ Len(pub.reviews) = a.count /\ Len(api.reviews) = a.count
       /\ RatingTotal(pub.reviews) = a.sum /\ RatingTotal(api.reviews) = a.sum
       /\ {pub.reviews[i].id : i \in 1..Len(pub.reviews)}
            = {k.reviewId : k \in RatingMapKeys(Db, p)}
       /\ Range(pub.reviews) = Range(api.reviews)
       /\ listingLoader(Db, GidPrefix \o p) = pub
       /\ productReviewLoader(Db, GidPrefix \o p) = api
       /\ p \in DOMAIN metafields => metafields[p].count = Len(pub.reviews)

C30_Witness ==
  /\ Cardinality({i \in DOMAIN reviews : reviews[i].productId = P3}) = 3
  /\ Len(listingLoader(Db, P3).reviews) = 2
  /\ \A i \in 1..2 : ~listingLoader(Db, P3).reviews[i].isSyndicated
  /\ Cardinality({x \in bundleReview : x.productId = P4}) = 2
  /\ Len(productReviewLoader(Db, P4).reviews) = 1
  /\ productReviewLoader(Db, P4).reviews[1].isSyndicated
  /\ P3 \in DOMAIN metafields /\ metafields[P3].count = 2
  /\ P4 \in DOMAIN metafields /\ metafields[P4].count = 1

====
